---------------------------- MODULE Spec2Model ----------------------------
(***************************************************************************)
(* Model of the OpenStack Designate provider of external-dns               *)
(* (internal/designate/provider): the zone index, the zone matcher, the    *)
(* endpoint reader, the record-set aggregator and the reconcile engine,    *)
(* together with the Designate client they talk to.                        *)
(*                                                                         *)
(* Strings of the program that are taken apart by the code (host names,    *)
(* zone names, targets, the original-records label, the aggregation key)   *)
(* are sequences of one-character strings, so that suffix tests, case      *)
(* folding, joining and splitting are computed and not assumed.            *)
(* Identifiers that the code only compares and copies (zone IDs,           *)
(* record-set IDs, record types) are TLA+ strings; "" is Go's empty string.*)
(***************************************************************************)
EXTENDS Integers, Sequences, FiniteSets, TLC

VARIABLES
    zHost,       \* zone matcher: the hostname given to getHostZoneID
    zIndex,      \* zone matcher: the managed-zone index (zone ID -> zone name)
    zResult,     \* zone matcher: the zone ID returned
    zDone,       \* zone matcher: getHostZoneID has returned
    zZones,      \* zone index: the zones of the remote service given to getZones
    zFilter,     \* zone index: designateProvider.domainFilter
    recordSets,  \* remote: record-set ID -> record set (all zones)
    nextID,      \* remote: number of record-set IDs handed out so far
    dryRun,      \* designateProvider.dryRun
    stage,       \* position of the caller in its read / apply cycle
    out,         \* the endpoints returned by the last Records call
    changes,     \* the plan.Changes given to the last ApplyChanges call
    pre,         \* remote record sets when the last ApplyChanges call started
    calls,       \* the calls the client received during the last ApplyChanges call
    attempts,    \* per aggregated entry, in iteration order: what upsertRecordSet did
    err,         \* the error returned by the last ApplyChanges call (<<>> is nil)
    readErr,     \* the error returned by the last Records call
    faults,      \* the listing calls that failed during the last call
    inflight,    \* overlapping ApplyChanges calls: call -> the locals of the call
    startedChan,          \* main: the channel on which the webhook API signals its start
    httpApiStarted,       \* main: the flag the /healthz handler tests
    healthz,              \* the answers of /healthz so far, in the order of the requests
    TotalApiCalls,        \* metrics: counter of the API calls of the Designate client
    FailedApiCallsTotal,  \* metrics: counter of its failed API calls
    ApiCallLatency,       \* metrics: method -> the number of latencies observed for it
    clientCalls           \* the calls of the Designate client, in the order they began

vars == <<zHost, zIndex, zResult, zDone, zZones, zFilter, recordSets, nextID,
          dryRun, stage, out, changes, pre, calls, attempts, err, readErr, faults,
          inflight, startedChan, httpApiStarted, healthz, TotalApiCalls,
          FailedApiCallsTotal, ApiCallLatency, clientCalls>>

zvars == <<zHost, zIndex, zResult, zDone, zZones, zFilter>>
pvars == <<recordSets, nextID, dryRun, stage, out, changes, pre, calls, attempts, err,
           readErr, faults, inflight>>
svars == <<startedChan, httpApiStarted, healthz, TotalApiCalls, FailedApiCallsTotal,
          ApiCallLatency, clientCalls>>

-----------------------------------------------------------------------------
(* Strings *)

\* the separator byte of the original-records label ("\000")
NUL == "NUL"

DOT == "."

\* strings.ToLower on one character of the alphabet used here
LowerChar(c) ==
    CASE c = "S" -> "s"
      [] c = "T" -> "t"
      [] c = "W" -> "w"
      [] c = "X" -> "x"
      [] OTHER -> c

\* strings.ToLower
ToLower(s) == [i \in 1..Len(s) |-> LowerChar(s[i])]

\* strings.HasSuffix
HasSuffix(s, suffix) ==
    /\ Len(suffix) <= Len(s)
    /\ SubSeq(s, Len(s) - Len(suffix) + 1, Len(s)) = suffix

\* strings.TrimSuffix(s, ".")
TrimSuffixDot(s) ==
    IF HasSuffix(s, <<DOT>>) THEN SubSeq(s, 1, Len(s) - 1) ELSE s

\* strings.Join(elems, "\000")
RECURSIVE Join(_)
Join(elems) ==
    IF Len(elems) = 0 THEN <<>>
    ELSE IF Len(elems) = 1 THEN elems[1]
    ELSE elems[1] \o <<NUL>> \o Join(Tail(elems))

\* strings.Split(s, "\000"): always at least one field, "" splits into <<"">>
RECURSIVE SplitFrom(_, _)
SplitFrom(s, field) ==
    IF Len(s) = 0 THEN <<field>>
    ELSE IF Head(s) = NUL THEN <<field>> \o SplitFrom(Tail(s), <<>>)
    ELSE SplitFrom(Tail(s), Append(field, Head(s)))

Split(s) == SplitFrom(s, <<>>)

\* the members of a sequence
Range(s) == {s[i] : i \in 1..Len(s)}

\* every order in which the members of a finite set can be visited (a Go map
\* is iterated in an unspecified order)
RECURSIVE Orders(_)
Orders(S) ==
    IF S = {} THEN {<<>>}
    ELSE UNION {{<<x>> \o o : o \in Orders(S \ {x})} : x \in S}

-----------------------------------------------------------------------------
(* canonical names *)

\* canonicalizeDomainName mutated: the name is not lower-cased
canonicalizeDomainNameNoLower(d) ==
    IF HasSuffix(d, <<DOT>>) THEN d ELSE d \o <<DOT>>

\* canonicalizeDomainName: append the trailing dot when absent, lower-case
canonicalizeDomainName(d) ==
    ToLower(IF HasSuffix(d, <<DOT>>) THEN d ELSE d \o <<DOT>>)

\* canonicalizeDomainNames mutated: no name is copied to the result
canonicalizeDomainNamesNone(domains) == <<>>

\* canonicalizeDomainNames: the append sits inside the `if`, so a name that
\* already ends with a dot is not copied to the result
RECURSIVE canonicalizeDomainNames(_)
canonicalizeDomainNames(domains) ==
    IF Len(domains) = 0 THEN <<>>
    ELSE (IF ~HasSuffix(Head(domains), <<DOT>>)
          THEN <<ToLower(Head(domains) \o <<DOT>>)>>
          ELSE <<>>) \o canonicalizeDomainNames(Tail(domains))

-----------------------------------------------------------------------------
(* Zone matcher *)

\* getHostZoneID mutated: the comparison keeps the shortest matching zone
RECURSIVE getHostZoneIDInShortest(_, _, _, _, _)
getHostZoneIDInShortest(hostname, managedZones, order, resultID, longestZoneLength) ==
    IF Len(order) = 0 THEN resultID
    ELSE LET zoneID == Head(order)
             zoneName == managedZones[zoneID]
             ln == Len(zoneName)
         IN  IF HasSuffix(hostname, zoneName) /\ (resultID = "" \/ ln < longestZoneLength)
             THEN getHostZoneIDInShortest(hostname, managedZones, Tail(order), zoneID, ln)
             ELSE getHostZoneIDInShortest(hostname, managedZones, Tail(order),
                                          resultID, longestZoneLength)

\* the loop of getHostZoneID over the zones of the index visited in `order`,
\* from the loop state (resultID, longestZoneLength)
RECURSIVE getHostZoneIDIn(_, _, _, _, _)
getHostZoneIDIn(hostname, managedZones, order, resultID, longestZoneLength) ==
    IF Len(order) = 0 THEN resultID
    ELSE LET zoneID == Head(order)
             zoneName == managedZones[zoneID]
             ln == Len(zoneName)
         IN  IF HasSuffix(hostname, zoneName) /\ ln > longestZoneLength
             THEN getHostZoneIDIn(hostname, managedZones, Tail(order), zoneID, ln)
             ELSE getHostZoneIDIn(hostname, managedZones, Tail(order),
                                  resultID, longestZoneLength)

\* getHostZoneID: the zone IDs it can return, one per iteration order of the map
getHostZoneID(hostname, managedZones) ==
    {getHostZoneIDIn(hostname, managedZones, order, "", 0) :
        order \in Orders(DOMAIN managedZones)}

-----------------------------------------------------------------------------
(* Labels, record types *)

designateRecordSetID == "designate-recordset-id"
designateZoneID == "designate-record-id"
designateOriginalRecords == "designate-original-records"

RecordTypeA == "A"
RecordTypeTXT == "TXT"
RecordTypeCNAME == "CNAME"

\* the characters of a record type, for the aggregation key
TypeChars(t) ==
    CASE t = "A" -> <<"A">>
      [] t = "TXT" -> <<"T", "X", "T">>
      [] t = "CNAME" -> <<"C", "N", "A", "M", "E">>
      [] t = "SRV" -> <<"S", "R", "V">>
      [] OTHER -> <<"?">>

\* ep.Labels[k] of a Go map: the zero value when the key is absent
\* (the empty string; for original-records the empty character sequence)
Label(ep, k) ==
    IF k \in DOMAIN ep.Labels THEN ep.Labels[k]
    ELSE IF k = designateOriginalRecords THEN <<>> ELSE ""

-----------------------------------------------------------------------------
(* The remote service: zones and record sets (DesignateClientInterface) *)

\* the zones of the remote service
RemoteZones ==
    [z \in {"z1", "z2", "z3"} |->
        CASE z = "z1" -> [Name |-> <<"t", ".">>, Type |-> "PRIMARY", Status |-> "ACTIVE"]
          [] z = "z2" -> [Name |-> <<"e", ".", "t", ".">>, Type |-> "", Status |-> "ACTIVE"]
          [] z = "z3" -> [Name |-> <<"u", ".">>, Type |-> "SECONDARY", Status |-> "ACTIVE"]]

\* generateDesignateID: "id-<n>"
generateDesignateID(n) == "id-" \o ToString(n)

\* the error values of the client
NoError == <<>>
UnknownZone(zoneID) == <<"unknown zone", zoneID>>
UnknownRecordSet(recordSetID) == <<"unknown record-set", recordSetID>>
\* no listing call fails: `zones` is the ForEachZone call of the operation that
\* fails (0: none), `rsets` the zones whose ForEachRecordSet call fails
NoFaults == [zones |-> 0, rsets |-> {}]
ListingError(what) == <<"listing failed", what>>
TransportError(what) == <<"transport error", what>>

\* a call received by the client
Call(op, zoneID, recordSetID, opts) ==
    [op |-> op, zoneID |-> zoneID, recordSetID |-> recordSetID, opts |-> opts]

\* CreateRecordSet on the remote state st = [recordSets, nextID, calls]:
\* the state after the call and the error returned
CreateRecordSet(st, zoneID, opts) ==
    LET called == [st EXCEPT !.calls = Append(@, Call("create", zoneID, "", opts))]
    IN  IF zoneID \notin DOMAIN RemoteZones
        THEN [st |-> called, err |-> UnknownZone(zoneID)]
        ELSE LET id == generateDesignateID(st.nextID + 1)
                 rs == [ID |-> id, ZoneID |-> zoneID, Name |-> opts.Name,
                        Records |-> opts.Records, TTL |-> opts.TTL, Type |-> opts.Type]
             IN  [st |-> [called EXCEPT !.recordSets = (id :> rs) @@ @,
                                        !.nextID = @ + 1],
                  err |-> NoError]

\* UpdateRecordSet
UpdateRecordSet(st, zoneID, recordSetID, opts) ==
    LET called == [st EXCEPT !.calls = Append(@, Call("update", zoneID, recordSetID, opts))]
    IN  IF zoneID \notin DOMAIN RemoteZones
        THEN [st |-> called, err |-> UnknownZone(zoneID)]
        ELSE IF \/ recordSetID \notin DOMAIN st.recordSets
                \/ st.recordSets[recordSetID].ZoneID # zoneID
        THEN [st |-> called, err |-> UnknownRecordSet(recordSetID)]
        ELSE [st |-> [called EXCEPT !.recordSets[recordSetID].TTL = opts.TTL,
                                    !.recordSets[recordSetID].Records = opts.Records],
              err |-> NoError]

\* DeleteRecordSet
DeleteRecordSet(st, zoneID, recordSetID) ==
    LET called == [st EXCEPT !.calls = Append(@, Call("delete", zoneID, recordSetID, <<>>))]
    IN  IF zoneID \notin DOMAIN RemoteZones
        THEN [st |-> called, err |-> UnknownZone(zoneID)]
        ELSE LET keep == {id \in DOMAIN st.recordSets :
                             ~(id = recordSetID /\ st.recordSets[id].ZoneID = zoneID)}
             IN  [st |-> [called EXCEPT !.recordSets = [id \in keep |-> st.recordSets[id]]],
                  err |-> NoError]

\* a call that fails in transport: the service receives it and the state of
\* the service stays as it was
FailedCall(st, call, what) ==
    [st |-> [st EXCEPT !.calls = Append(@, call)], err |-> TransportError(what)]

-----------------------------------------------------------------------------
(* Zone index *)

\* strings.ToUpper on a zone type
ToUpperType(t) ==
    CASE t = "primary" -> "PRIMARY"
      [] t = "Primary" -> "PRIMARY"
      [] t = "secondary" -> "SECONDARY"
      [] OTHER -> t

\* designateProvider.domainFilter: the configured filters (none: every zone)
domainFilter == {}

\* endpoint.DomainFilter.Match: no filter accepts every name; a filter accepts
\* the names equal to it or ending with a dot and it, trailing dots ignored
DomainFilterMatch(filters, name) ==
    \/ filters = {}
    \/ \E f \in filters :
          LET n == TrimSuffixDot(name)
              g == TrimSuffixDot(f)
          IN  n = g \/ HasSuffix(n, <<DOT>> \o g)

\* getZones mutated: the status of the zone is not looked at
getZonesAnyStatus(zones, filter) ==
    LET managed == {id \in DOMAIN zones :
                      /\ ~(zones[id].Type # "" /\ ToUpperType(zones[id].Type) # "PRIMARY")
                      /\ DomainFilterMatch(filter, canonicalizeDomainName(zones[id].Name))}
    IN  [id \in managed |-> canonicalizeDomainName(zones[id].Name)]

\* getZones of a provider with the domain filter `filter`: zone ID ->
\* canonical zone name of the managed zones
getZonesWith(zones, filter) ==
    LET managed == {id \in DOMAIN zones :
                      /\ ~(\/ zones[id].Type # "" /\ ToUpperType(zones[id].Type) # "PRIMARY"
                           \/ zones[id].Status # "ACTIVE")
                      /\ DomainFilterMatch(filter, canonicalizeDomainName(zones[id].Name))}
    IN  [id \in managed |-> canonicalizeDomainName(zones[id].Name)]

\* getZones of the provider under test
getZones(zones) == getZonesWith(zones, domainFilter)

-----------------------------------------------------------------------------
(* Endpoint reader *)

\* endpoint.NewEndpointWithTTL: one trailing dot is trimmed from the name and
\* from every target; the labels start empty
NewEndpointWithTTL(dnsName, recordType, ttl, targets) ==
    [DNSName |-> TrimSuffixDot(dnsName),
     RecordType |-> recordType,
     Targets |-> [i \in 1..Len(targets) |-> TrimSuffixDot(targets[i])],
     RecordTTL |-> ttl,
     Labels |-> <<>>]

\* the handler of Records mutated: the original-records label is joined from
\* the targets of the endpoint
RecordsEndpointTargetsLabel(recordSet) ==
    LET ep == NewEndpointWithTTL(recordSet.Name, recordSet.Type, recordSet.TTL,
                                 recordSet.Records)
    IN  [ep EXCEPT !.Labels =
            (designateRecordSetID :> recordSet.ID)
            @@ (designateZoneID :> recordSet.ZoneID)
            @@ (designateOriginalRecords :> Join(ep.Targets))]

\* the handler of Records for one record set: the endpoint appended to the result
RecordsEndpoint(recordSet) ==
    LET ep == NewEndpointWithTTL(recordSet.Name, recordSet.Type, recordSet.TTL,
                                 recordSet.Records)
    IN  [ep EXCEPT !.Labels =
            (designateRecordSetID :> recordSet.ID)
            @@ (designateZoneID :> recordSet.ZoneID)
            @@ (designateOriginalRecords :> Join(recordSet.Records))]

\* the type filter of Records mutated: every record type is kept
SupportedTypeAny(t) == TRUE

\* the record types Records keeps
SupportedType(t) == t = RecordTypeA \/ t = RecordTypeTXT \/ t = RecordTypeCNAME

\* ForEachRecordSet with the handler of Records: the endpoints of one zone, in
\* each order the service can list them
RecordsOfZone(rsets, zoneID) ==
    LET ids == {id \in DOMAIN rsets :
                   rsets[id].ZoneID = zoneID /\ SupportedType(rsets[id].Type)}
    IN  {[i \in 1..Len(o) |-> RecordsEndpoint(rsets[o[i]])] : o \in Orders(ids)}

RECURSIVE RecordsInOrder(_, _)
RecordsInOrder(rsets, zoneOrder) ==
    IF Len(zoneOrder) = 0 THEN {<<>>}
    ELSE {a \o b : a \in RecordsOfZone(rsets, Head(zoneOrder)),
                   b \in RecordsInOrder(rsets, Tail(zoneOrder))}

\* Records: the endpoint lists it can return (the managed zones are a Go map)
Records(zones, rsets) ==
    UNION {RecordsInOrder(rsets, zoneOrder) : zoneOrder \in Orders(DOMAIN getZones(zones))}

\* the loop of Records mutated: the endpoints listed so far are returned with
\* the error
RECURSIVE RecordsLoopPartial(_, _, _, _)
RecordsLoopPartial(rsets, zoneOrder, result, failingZones) ==
    IF Len(zoneOrder) = 0 THEN {[endpoints |-> result, err |-> NoError]}
    ELSE IF Head(zoneOrder) \in failingZones
    THEN {[endpoints |-> result, err |-> ListingError(Head(zoneOrder))]}
    ELSE UNION {RecordsLoopPartial(rsets, Tail(zoneOrder), result \o listed, failingZones)
                : listed \in RecordsOfZone(rsets, Head(zoneOrder))}

\* the loop of Records over the managed zones in one order, ForEachRecordSet
\* failing for the zones of failingZones: the (endpoints, error) it can return
RECURSIVE RecordsLoop(_, _, _, _)
RecordsLoop(rsets, zoneOrder, result, failingZones) ==
    IF Len(zoneOrder) = 0 THEN {[endpoints |-> result, err |-> NoError]}
    ELSE IF Head(zoneOrder) \in failingZones
    THEN {[endpoints |-> <<>>, err |-> ListingError(Head(zoneOrder))]}
    ELSE UNION {RecordsLoop(rsets, Tail(zoneOrder), result \o listed, failingZones)
                : listed \in RecordsOfZone(rsets, Head(zoneOrder))}

\* Records with listing calls that can fail: the (endpoints, error) it can
\* return
RecordsFaulty(zones, rsets, zonesFail, failingZones) ==
    IF zonesFail THEN {[endpoints |-> <<>>, err |-> ListingError("zones")]}
    ELSE UNION {RecordsLoop(rsets, zoneOrder, <<>>, failingZones)
                : zoneOrder \in Orders(DOMAIN getZones(zones))}

-----------------------------------------------------------------------------
(* Record-set aggregator *)

\* addDesignateIDLabelsFromExistingEndpoints mutated: the first endpoint of
\* the record type matches, whatever its hostname
RECURSIVE addDesignateIDLabelsAnyName(_, _)
addDesignateIDLabelsAnyName(existingEndpoints, ep) ==
    LET hasZoneIDLabel == designateZoneID \in DOMAIN ep.Labels
        hasRecordSetIDLabel == designateRecordSetID \in DOMAIN ep.Labels
    IN  IF hasZoneIDLabel /\ hasRecordSetIDLabel THEN ep
        ELSE IF Len(existingEndpoints) = 0 THEN ep
        ELSE LET oep == Head(existingEndpoints)
             IN  IF ep.RecordType = oep.RecordType
                 THEN [ep EXCEPT !.Labels =
                          (IF hasZoneIDLabel THEN <<>>
                           ELSE (designateZoneID :> Label(oep, designateZoneID)))
                          @@ (IF hasRecordSetIDLabel THEN <<>>
                              ELSE (designateRecordSetID :> Label(oep, designateRecordSetID)))
                          @@ ep.Labels]
                 ELSE addDesignateIDLabelsAnyName(Tail(existingEndpoints), ep)

\* addDesignateIDLabelsFromExistingEndpoints mutated: both labels are taken
\* from the first matching endpoint, whether the endpoint carries them or not
RECURSIVE addDesignateIDLabelsOverwriting(_, _)
addDesignateIDLabelsOverwriting(existingEndpoints, ep) ==
    IF Len(existingEndpoints) = 0 THEN ep
    ELSE LET oep == Head(existingEndpoints)
         IN  IF ep.RecordType = oep.RecordType /\ ep.DNSName = oep.DNSName
             THEN [ep EXCEPT !.Labels =
                      (designateZoneID :> Label(oep, designateZoneID))
                      @@ (designateRecordSetID :> Label(oep, designateRecordSetID))
                      @@ ep.Labels]
             ELSE addDesignateIDLabelsOverwriting(Tail(existingEndpoints), ep)

\* addDesignateIDLabelsFromExistingEndpoints: the endpoint as the call leaves
\* it (the labels are written into the caller's endpoint)
RECURSIVE addDesignateIDLabelsFromExistingEndpoints(_, _)
addDesignateIDLabelsFromExistingEndpoints(existingEndpoints, ep) ==
    LET hasZoneIDLabel == designateZoneID \in DOMAIN ep.Labels
        hasRecordSetIDLabel == designateRecordSetID \in DOMAIN ep.Labels
    IN  IF hasZoneIDLabel /\ hasRecordSetIDLabel THEN ep
        ELSE IF Len(existingEndpoints) = 0 THEN ep
        ELSE LET oep == Head(existingEndpoints)
             IN  IF ep.RecordType = oep.RecordType /\ ep.DNSName = oep.DNSName
                 THEN [ep EXCEPT !.Labels =
                          (IF hasZoneIDLabel THEN <<>>
                           ELSE (designateZoneID :> Label(oep, designateZoneID)))
                          @@ (IF hasRecordSetIDLabel THEN <<>>
                              ELSE (designateRecordSetID :> Label(oep, designateRecordSetID)))
                          @@ ep.Labels]
                 ELSE addDesignateIDLabelsFromExistingEndpoints(Tail(existingEndpoints), ep)

\* fmt.Sprintf("%s/%s", ep.DNSName, ep.RecordType)
EntryKey(ep) == ep.DNSName \o <<"/">> \o TypeChars(ep.RecordType)

\* addEndpoint mutated: the original-records label is not replayed
addEndpointNoOriginal(ep, agg, oldEndpoints, delete) ==
    LET key == EntryKey(ep)
        rs0 == IF key \in DOMAIN agg THEN agg[key]
               ELSE [dnsName |-> canonicalizeDomainName(ep.DNSName),
                     recordType |-> ep.RecordType,
                     zoneID |-> "",
                     recordSetID |-> "",
                     ttl |-> ep.RecordTTL,
                     names |-> <<>>]
        lep == addDesignateIDLabelsFromExistingEndpoints(oldEndpoints, ep)
        zoneID == IF rs0.zoneID = "" THEN Label(lep, designateZoneID) ELSE rs0.zoneID
        recordSetID == IF rs0.recordSetID = "" THEN Label(lep, designateRecordSetID)
                       ELSE rs0.recordSetID
        targets == IF ep.RecordType = RecordTypeCNAME
                   THEN canonicalizeDomainNames(ep.Targets)
                   ELSE ep.Targets
        names2 == [t \in Range(targets) |-> ~delete] @@ rs0.names
        rs == [rs0 EXCEPT !.zoneID = zoneID, !.recordSetID = recordSetID,
                          !.names = names2]
    IN  (key :> rs) @@ agg

\* addEndpoint mutated: the replay of the original-records label also marks
\* the targets that are already in the target map
addEndpointReplayAll(ep, agg, oldEndpoints, delete) ==
    LET key == EntryKey(ep)
        rs0 == IF key \in DOMAIN agg THEN agg[key]
               ELSE [dnsName |-> canonicalizeDomainName(ep.DNSName),
                     recordType |-> ep.RecordType,
                     zoneID |-> "",
                     recordSetID |-> "",
                     ttl |-> ep.RecordTTL,
                     names |-> <<>>]
        lep == addDesignateIDLabelsFromExistingEndpoints(oldEndpoints, ep)
        zoneID == IF rs0.zoneID = "" THEN Label(lep, designateZoneID) ELSE rs0.zoneID
        recordSetID == IF rs0.recordSetID = "" THEN Label(lep, designateRecordSetID)
                       ELSE rs0.recordSetID
        original == {rec \in Range(Split(Label(lep, designateOriginalRecords))) :
                        rec # <<>>}
        names1 == [rec \in original |-> TRUE] @@ rs0.names
        targets == IF ep.RecordType = RecordTypeCNAME
                   THEN canonicalizeDomainNames(ep.Targets)
                   ELSE ep.Targets
        names2 == [t \in Range(targets) |-> ~delete] @@ names1
        rs == [rs0 EXCEPT !.zoneID = zoneID, !.recordSetID = recordSetID,
                          !.names = names2]
    IN  (key :> rs) @@ agg

\* addEndpoint: the aggregation map after the endpoint is folded in
addEndpoint(ep, agg, oldEndpoints, delete) ==
    LET key == EntryKey(ep)
        rs0 == IF key \in DOMAIN agg THEN agg[key]
               ELSE [dnsName |-> canonicalizeDomainName(ep.DNSName),
                     recordType |-> ep.RecordType,
                     zoneID |-> "",
                     recordSetID |-> "",
                     ttl |-> ep.RecordTTL,
                     names |-> <<>>]
        lep == addDesignateIDLabelsFromExistingEndpoints(oldEndpoints, ep)
        zoneID == IF rs0.zoneID = "" THEN Label(lep, designateZoneID) ELSE rs0.zoneID
        recordSetID == IF rs0.recordSetID = "" THEN Label(lep, designateRecordSetID)
                       ELSE rs0.recordSetID
        original == {rec \in Range(Split(Label(lep, designateOriginalRecords))) :
                        rec \notin DOMAIN rs0.names /\ rec # <<>>}
        names1 == [rec \in original |-> TRUE] @@ rs0.names
        targets == IF ep.RecordType = RecordTypeCNAME
                   THEN canonicalizeDomainNames(ep.Targets)
                   ELSE ep.Targets
        names2 == [t \in Range(targets) |-> ~delete] @@ names1
        rs == [rs0 EXCEPT !.zoneID = zoneID, !.recordSetID = recordSetID,
                          !.names = names2]
    IN  (key :> rs) @@ agg

\* one loop of ApplyChanges over a list of the batch
RECURSIVE addEndpoints(_, _, _, _)
addEndpoints(eps, agg, oldEndpoints, delete) ==
    IF Len(eps) = 0 THEN agg
    ELSE addEndpoints(Tail(eps), addEndpoint(Head(eps), agg, oldEndpoints, delete),
                      oldEndpoints, delete)

\* the four loops of ApplyChanges: creates, update-olds, update-news, deletes
foldChanges(ch, endpoints) ==
    LET a1 == addEndpoints(ch.Create, <<>>, endpoints, FALSE)
        a2 == addEndpoints(ch.UpdateOld, a1, endpoints, TRUE)
        a3 == addEndpoints(ch.UpdateNew, a2, endpoints, FALSE)
    IN  addEndpoints(ch.Delete, a3, endpoints, TRUE)

-----------------------------------------------------------------------------
(* Reconcile engine *)

\* what upsertRecordSet did for one entry: the entry with its zone resolved,
\* the wanted records in the order listed, the state it left, the error it
\* returned
Attempt(key, rs, records, st, e) ==
    [key |-> key, rs |-> rs, records |-> records, st |-> st, err |-> e]

\* upsertRecordSet mutated: the dry-run test of the delete branch is missing
upsertResolvedDeleteInDryRun(st, key, rs, records, dry, failing) ==
    IF rs.recordSetID = "" /\ Len(records) = 0
    THEN Attempt(key, rs, records, st, NoError)
    ELSE IF rs.recordSetID = ""
    THEN LET opts == [Name |-> rs.dnsName, Type |-> rs.recordType,
                      Records |-> records, TTL |-> rs.ttl]
         IN  IF dry THEN Attempt(key, rs, records, st, NoError)
             ELSE LET r == CreateRecordSet(st, rs.zoneID, opts)
                  IN  Attempt(key, rs, records, r.st, r.err)
    ELSE IF Len(records) = 0
    THEN LET r == DeleteRecordSet(st, rs.zoneID, rs.recordSetID)
         IN  Attempt(key, rs, records, r.st, r.err)
    ELSE LET opts == [Records |-> records, TTL |-> rs.ttl]
         IN  IF dry THEN Attempt(key, rs, records, st, NoError)
             ELSE LET r == UpdateRecordSet(st, rs.zoneID, rs.recordSetID, opts)
                  IN  Attempt(key, rs, records, r.st, r.err)

\* upsertRecordSet mutated: an entry without a record-set ID and without
\* wanted records still issues a create
upsertResolvedCreateEmpty(st, key, rs, records, dry, failing) ==
    IF rs.recordSetID = ""
    THEN LET opts == [Name |-> rs.dnsName, Type |-> rs.recordType,
                      Records |-> records, TTL |-> rs.ttl]
         IN  IF dry THEN Attempt(key, rs, records, st, NoError)
             ELSE LET r == CreateRecordSet(st, rs.zoneID, opts)
                  IN  Attempt(key, rs, records, r.st, r.err)
    ELSE IF Len(records) = 0
    THEN IF dry THEN Attempt(key, rs, records, st, NoError)
         ELSE LET r == DeleteRecordSet(st, rs.zoneID, rs.recordSetID)
              IN  Attempt(key, rs, records, r.st, r.err)
    ELSE LET opts == [Records |-> records, TTL |-> rs.ttl]
         IN  IF dry THEN Attempt(key, rs, records, st, NoError)
             ELSE LET r == UpdateRecordSet(st, rs.zoneID, rs.recordSetID, opts)
                  IN  Attempt(key, rs, records, r.st, r.err)

\* upsertRecordSet once the zone is resolved and the wanted records are
\* listed; the client call of an entry in `failing` fails in transport
upsertResolved(st, key, rs, records, dry, failing) ==
    IF rs.recordSetID = "" /\ Len(records) = 0
    THEN Attempt(key, rs, records, st, NoError)
    ELSE IF rs.recordSetID = ""
    THEN LET opts == [Name |-> rs.dnsName, Type |-> rs.recordType,
                      Records |-> records, TTL |-> rs.ttl]
         IN  IF dry THEN Attempt(key, rs, records, st, NoError)
             ELSE LET r == IF key \in failing
                           THEN FailedCall(st, Call("create", rs.zoneID, "", opts), key)
                           ELSE CreateRecordSet(st, rs.zoneID, opts)
                  IN  Attempt(key, rs, records, r.st, r.err)
    ELSE IF Len(records) = 0
    THEN IF dry THEN Attempt(key, rs, records, st, NoError)
         ELSE LET r == IF key \in failing
                       THEN FailedCall(st, Call("delete", rs.zoneID, rs.recordSetID, <<>>), key)
                       ELSE DeleteRecordSet(st, rs.zoneID, rs.recordSetID)
              IN  Attempt(key, rs, records, r.st, r.err)
    ELSE LET opts == [Records |-> records, TTL |-> rs.ttl]
         IN  IF dry THEN Attempt(key, rs, records, st, NoError)
             ELSE LET r == IF key \in failing
                           THEN FailedCall(st, Call("update", rs.zoneID, rs.recordSetID, opts), key)
                           ELSE UpdateRecordSet(st, rs.zoneID, rs.recordSetID, opts)
                  IN  Attempt(key, rs, records, r.st, r.err)

\* upsertRecordSet mutated: an entry whose zone is not found is not skipped
upsertRecordSetNoSkip(st, key, rs, managedZones, dry, failing) ==
    LET zoneIDs == IF rs.zoneID = "" THEN getHostZoneID(rs.dnsName, managedZones)
                   ELSE {rs.zoneID}
        wanted == {rec \in DOMAIN rs.names : rs.names[rec]}
    IN  {upsertResolved(st, key, [rs EXCEPT !.zoneID = zoneID], records, dry, failing) :
            zoneID \in zoneIDs, records \in Orders(wanted)}

\* upsertRecordSet: the attempts it can make for one entry (the zone match and
\* the order of the wanted records come from Go map iterations)
upsertRecordSet(st, key, rs, managedZones, dry, failing) ==
    LET zoneIDs == IF rs.zoneID = "" THEN getHostZoneID(rs.dnsName, managedZones)
                   ELSE {rs.zoneID}
        wanted == {rec \in DOMAIN rs.names : rs.names[rec]}
    IN  UNION {
          IF zoneID = ""
          THEN {Attempt(key, [rs EXCEPT !.zoneID = zoneID], <<>>, st, NoError)}
          ELSE {upsertResolved(st, key, [rs EXCEPT !.zoneID = zoneID], records, dry, failing) :
                   records \in Orders(wanted)}
          : zoneID \in zoneIDs}

\* ApplyChanges mutated: the error of a later entry replaces an earlier one
keepLastError(e, err2) == IF err2 = NoError THEN e ELSE err2

\* the loop body of ApplyChanges: `if err2 := ...; err == nil { err = err2 }`
keepError(e, err2) == IF e = NoError THEN err2 ELSE e

\* the loop of ApplyChanges over the aggregation map in one order: the runs
\* [st, attempts, err] it can end in
RECURSIVE upsertAll(_, _, _, _, _, _)
upsertAll(run, agg, order, managedZones, dry, failing) ==
    IF Len(order) = 0 THEN {run}
    ELSE UNION {
           upsertAll([st |-> a.st,
                      attempts |-> Append(run.attempts, a),
                      err |-> keepError(run.err, a.err)],
                     agg, Tail(order), managedZones, dry, failing)
           : a \in upsertRecordSet(run.st, Head(order), agg[Head(order)],
                                   managedZones, dry, failing)}

\* ApplyChanges: the runs it can end in from remote state st, each
\* [st, attempts, err]
ApplyChangesRuns(st, ch, dry, failing) ==
    LET managedZones == getZones(RemoteZones)
    IN  UNION {
          LET agg == foldChanges(ch, endpoints)
          IN  UNION {upsertAll([st |-> st, attempts |-> <<>>, err |-> NoError],
                               agg, order, managedZones, dry, failing)
                     : order \in Orders(DOMAIN agg)}
          : endpoints \in Records(RemoteZones, st.recordSets)}

\* the error ApplyChanges makes of an error of Records
FetchError(e) == <<"failed to fetch active records", e>>

\* ApplyChanges mutated: it does not return when Records fails
ApplyChangesFaultyNoStop(st, ch, dry, failing, f) ==
    LET managedZones == getZones(RemoteZones)
    IN  IF f.zones = 1
        THEN {[st |-> st, attempts |-> <<>>, err |-> ListingError("zones")]}
        ELSE UNION {
               LET agg == foldChanges(ch, read.endpoints)
                   e == IF read.err # NoError THEN FetchError(read.err) ELSE NoError
               IN  UNION {upsertAll([st |-> st, attempts |-> <<>>, err |-> e],
                                    agg, order, managedZones, dry, failing)
                          : order \in Orders(DOMAIN agg)}
               : read \in RecordsFaulty(RemoteZones, st.recordSets, f.zones = 2, f.rsets)}

\* ApplyChanges with listing calls that can fail (f.zones = 1: the ForEachZone
\* call of getZones, f.zones = 2: the one of Records): the runs it can end in
ApplyChangesFaulty(st, ch, dry, failing, f) ==
    LET managedZones == getZones(RemoteZones)
    IN  IF f.zones = 1
        THEN {[st |-> st, attempts |-> <<>>, err |-> ListingError("zones")]}
        ELSE UNION {
               IF read.err # NoError
               THEN {[st |-> st, attempts |-> <<>>, err |-> FetchError(read.err)]}
               ELSE LET agg == foldChanges(ch, read.endpoints)
                    IN  UNION {upsertAll([st |-> st, attempts |-> <<>>, err |-> NoError],
                                         agg, order, managedZones, dry, failing)
                               : order \in Orders(DOMAIN agg)}
               : read \in RecordsFaulty(RemoteZones, st.recordSets, f.zones = 2, f.rsets)}

-----------------------------------------------------------------------------
(* Bounds and input sets *)

\* zones in a zone index given to the zone matcher
MaxZones == 3
\* record sets in the remote service at the start
MaxInitRS == 2
\* endpoints in one change batch
MaxBatch == 2
\* distinct targets of A records
NumTargets == 3

\* host names of change requests: s.t, s.t. (same name, trailing dot),
\* W.e.t (upper case, in the sub-zone e.t.), s.u (no managed zone)
HostST == <<"s", ".", "t">>
HostSTDot == <<"s", ".", "t", ".">>
HostWET == <<"W", ".", "e", ".", "t">>
HostSU == <<"s", ".", "u">>
Hosts == {HostST, HostSTDot, HostWET, HostSU}

ATargets == {<<ToString(i)>> : i \in 1..NumTargets}
CNAMETargets == {<<"x">>, <<"x", ".">>, <<"y", ".">>}
TargetsOf(t) == IF t = RecordTypeCNAME THEN CNAMETargets ELSE ATargets

\* the TTL of a request that is not copied from an endpoint that was read
RequestTTLs == {120}

Endpoint(name, type, targets, ttl, labels) ==
    [DNSName |-> name, RecordType |-> type, Targets |-> targets,
     RecordTTL |-> ttl, Labels |-> labels]

\* the record sets the remote service can hold at the start
InitCatalog ==
    << [ZoneID |-> "z1", Name |-> HostSTDot, Type |-> "A",
        Records |-> << <<"1">>, <<"2">> >>, TTL |-> 60],
       [ZoneID |-> "z1", Name |-> HostSTDot, Type |-> "CNAME",
        Records |-> << <<"x", ".">>, <<"y", ".">> >>, TTL |-> 60],
       [ZoneID |-> "z2", Name |-> <<"w", ".", "e", ".", "t", ".">>, Type |-> "A",
        Records |-> << <<"1">> >>, TTL |-> 120],
       [ZoneID |-> "z1", Name |-> HostSTDot, Type |-> "SRV",
        Records |-> << <<"3">> >>, TTL |-> 60] >>

InitRemotes ==
    {[id \in {generateDesignateID(i) : i \in I} |->
        LET i == CHOOSE j \in I : generateDesignateID(j) = id
        IN  [ID |-> id, ZoneID |-> InitCatalog[i].ZoneID, Name |-> InitCatalog[i].Name,
             Records |-> InitCatalog[i].Records, TTL |-> InitCatalog[i].TTL,
             Type |-> InitCatalog[i].Type]]
     : I \in {J \in SUBSET (1..Len(InitCatalog)) : Cardinality(J) <= MaxInitRS}}

\* Change requests of a planner that has read the endpoints `read`.  A create
\* carries no labels.  The other requests are made from an endpoint that was
\* read: with its labels under its name or with a trailing dot, or without
\* labels under its name.
\* A removal keeps the TTL that was read and names one target (as read, or as
\* stored remotely) or all targets read; an addition names one target; a
\* create names one target, or two under the name s.t.
CreateRequests(t) ==
    {Endpoint(h, t, <<x>>, ttl, <<>>) :
        h \in Hosts, x \in TargetsOf(t), ttl \in RequestTTLs}
    \cup {Endpoint(HostST, t, ts, ttl, <<>>) :
            ts \in {IF t = RecordTypeCNAME THEN << <<"x">>, <<"y", ".">> >>
                    ELSE << <<"1">>, <<"2">> >>},
            ttl \in RequestTTLs}

\* the forms under which a request names the endpoint e that was read
RequestForms(e) ==
    {[DNSName |-> e.DNSName, Labels |-> e.Labels],
     [DNSName |-> e.DNSName \o <<DOT>>, Labels |-> e.Labels],
     [DNSName |-> e.DNSName, Labels |-> <<>>]}

RemovalTargets(e) ==
    {<<x>> : x \in Range(e.Targets) \cup Range(Split(Label(e, designateOriginalRecords)))}
    \cup {e.Targets}

RemovalRequests(read, t) ==
    UNION {{Endpoint(f.DNSName, t, ts, e.RecordTTL, f.Labels) :
               f \in RequestForms(e), ts \in RemovalTargets(e)}
           : e \in {r \in Range(read) : r.RecordType = t}}

AdditionRequests(read, t) ==
    UNION {{Endpoint(f.DNSName, t, <<x>>, ttl, f.Labels) :
               f \in RequestForms(e), x \in TargetsOf(t), ttl \in RequestTTLs}
           : e \in {r \in Range(read) : r.RecordType = t}}

ChangeItems(read, t) ==
    ({"Create"} \X CreateRequests(t))
    \cup ({"UpdateOld"} \X RemovalRequests(read, t))
    \cup ({"UpdateNew"} \X AdditionRequests(read, t))
    \cup ({"Delete"} \X RemovalRequests(read, t))

\* the endpoints of one list of the batch, in the order of the items
RECURSIVE ItemsOf(_, _)
ItemsOf(items, phase) ==
    IF Len(items) = 0 THEN <<>>
    ELSE (IF Head(items)[1] = phase THEN <<Head(items)[2]>> ELSE <<>>)
         \o ItemsOf(Tail(items), phase)

Changes(items) ==
    [Create |-> ItemsOf(items, "Create"), UpdateOld |-> ItemsOf(items, "UpdateOld"),
     UpdateNew |-> ItemsOf(items, "UpdateNew"), Delete |-> ItemsOf(items, "Delete")]

NoChanges == Changes(<<>>)

\* the batches of at most MaxBatch requests, all of one record type (requests
\* of different types share neither an aggregation key nor a record set)
Batches(read) ==
    {Changes(items) :
        items \in UNION {[1..n -> ChangeItems(read, t)] :
                            n \in 0..MaxBatch, t \in {RecordTypeA, RecordTypeCNAME}}}

\* the batch again, every endpoint now carrying the labels of the endpoint read
\* for its record type and canonical name (when there is one)
Relabel(ep, read) ==
    LET same == {i \in 1..Len(read) :
                    /\ read[i].RecordType = ep.RecordType
                    /\ canonicalizeDomainName(read[i].DNSName)
                         = canonicalizeDomainName(ep.DNSName)}
    IN  IF same = {} THEN ep
        ELSE [ep EXCEPT !.Labels = read[CHOOSE i \in same : \A j \in same : i <= j].Labels]

RelabelChanges(ch, read) ==
    [ch EXCEPT !.Create = [i \in 1..Len(ch.Create) |-> Relabel(ch.Create[i], read)]]

-----------------------------------------------------------------------------
(* State machine *)

ZoneMatcherIdle ==
    /\ zHost = <<>>
    /\ zIndex = <<>>
    /\ zResult = ""
    /\ zDone = FALSE
    /\ zZones = <<>>
    /\ zFilter = {}

\* the methods of designateClient, the values of the label of ApiCallLatency
ClientMethods == {"ForEachZone", "ForEachRecordSet", "CreateRecordSet", "UpdateRecordSet",
                  "DeleteRecordSet"}

\* main before the webhook API has started, the counters of the metrics
\* package as registered
ServerIdle ==
    /\ startedChan = "open"
    /\ httpApiStarted = FALSE
    /\ healthz = <<>>
    /\ TotalApiCalls = 0
    /\ FailedApiCallsTotal = 0
    /\ ApiCallLatency = [method \in ClientMethods |-> 0]
    /\ clientCalls = <<>>

ProviderIdle ==
    /\ recordSets = <<>>
    /\ nextID = 0
    /\ dryRun = FALSE
    /\ stage = "idle"
    /\ out = <<>>
    /\ changes = NoChanges
    /\ pre = <<>>
    /\ calls = <<>>
    /\ attempts = <<>>
    /\ err = NoError
    /\ readErr = NoError
    /\ faults = NoFaults
    /\ inflight = <<>>
    /\ ServerIdle

Init ==
    /\ ZoneMatcherIdle
    /\ recordSets \in InitRemotes
    /\ nextID = Len(InitCatalog)
    /\ dryRun \in BOOLEAN
    /\ stage = "start"
    /\ out = <<>>
    /\ changes = NoChanges
    /\ pre = recordSets
    /\ calls = <<>>
    /\ attempts = <<>>
    /\ err = NoError
    /\ readErr = NoError
    /\ faults = NoFaults
    /\ inflight = <<>>
    /\ ServerIdle

\* a Records call of the planner
DoRecords ==
    /\ stage \in {"start", "applied"}
    /\ out' \in Records(RemoteZones, recordSets)
    /\ stage' = IF stage = "start" THEN "read" ELSE "reread"
    /\ readErr' = NoError
    /\ UNCHANGED <<recordSets, nextID, dryRun, changes, pre, calls, attempts, err, faults>>
    /\ UNCHANGED zvars
    /\ UNCHANGED svars
    /\ UNCHANGED inflight

\* an ApplyChanges call with a batch planned from the endpoints read
DoApplyChanges ==
    /\ stage = "read"
    /\ \E ch \in Batches(out) :
         \E run \in ApplyChangesRuns([recordSets |-> recordSets, nextID |-> nextID,
                                      calls |-> <<>>],
                                     ch, dryRun, {}) :
            /\ changes' = ch
            /\ pre' = recordSets
            /\ recordSets' = run.st.recordSets
            /\ nextID' = run.st.nextID
            /\ calls' = run.st.calls
            /\ attempts' = run.attempts
            /\ err' = run.err
    /\ stage' = "applied"
    /\ UNCHANGED <<dryRun, out, readErr, faults>>
    /\ UNCHANGED zvars
    /\ UNCHANGED svars
    /\ UNCHANGED inflight

\* the create batch of the last ApplyChanges call applied again, with the
\* labels of the endpoints read since
DoApplyAgain ==
    /\ stage = "reread"
    /\ changes.Create # <<>>
    /\ changes.UpdateOld = <<>> /\ changes.UpdateNew = <<>> /\ changes.Delete = <<>>
    /\ \E run \in ApplyChangesRuns([recordSets |-> recordSets, nextID |-> nextID,
                                      calls |-> <<>>],
                                   RelabelChanges(changes, out), dryRun, {}) :
            /\ changes' = RelabelChanges(changes, out)
            /\ pre' = recordSets
            /\ recordSets' = run.st.recordSets
            /\ nextID' = run.st.nextID
            /\ calls' = run.st.calls
            /\ attempts' = run.attempts
            /\ err' = run.err
    /\ stage' = "reapplied"
    /\ UNCHANGED <<dryRun, out, readErr, faults>>
    /\ UNCHANGED zvars
    /\ UNCHANGED svars
    /\ UNCHANGED inflight

Next == DoRecords \/ DoApplyChanges \/ DoApplyAgain

Spec == Init /\ [][Next]_vars

-----------------------------------------------------------------------------
(* The zone matcher on its own: getHostZoneID applied to a hostname and a     *)
(* zone index                                                               *)

\* zone names: c. (example.com.), t.c. (test.example.com.), f. (foo.com.);
\* zd is a second zone ID whose name is c. too
ZoneCatalog ==
    [z \in {"za", "zb", "zc", "zd"} |->
        CASE z = "za" -> <<"c", ".">>
          [] z = "zb" -> <<"t", ".", "c", ".">>
          [] z = "zc" -> <<"f", ".">>
          [] z = "zd" -> <<"c", ".">>]

ZIndexes ==
    {[z \in I |-> ZoneCatalog[z]] :
        I \in {J \in SUBSET DOMAIN ZoneCatalog : Cardinality(J) <= MaxZones}}

\* c., t.c., a.c., a.t.c. (foo.test.example.com.), x-t.c. (first-test.example.com.), g.
ZHosts ==
    {<<"c", ".">>, <<"t", ".", "c", ".">>, <<"a", ".", "c", ".">>,
     <<"a", ".", "t", ".", "c", ".">>, <<"x", "-", "t", ".", "c", ".">>, <<"g", ".">>}

InitZone ==
    /\ ProviderIdle
    /\ zHost \in ZHosts
    /\ zIndex \in ZIndexes
    /\ zResult = ""
    /\ zDone = FALSE
    /\ zZones = <<>>
    /\ zFilter = {}

DoGetHostZoneID ==
    /\ ~zDone
    /\ zResult' \in getHostZoneID(zHost, zIndex)
    /\ zDone' = TRUE
    /\ UNCHANGED <<zHost, zIndex, zZones, zFilter>>
    /\ UNCHANGED pvars
    /\ UNCHANGED svars

NextZone == DoGetHostZoneID

SpecZone == InitZone /\ [][NextZone]_vars

\* the zones of the index whose name is a suffix of the hostname
SuffixZones(hostname, index) == {z \in DOMAIN index : HasSuffix(hostname, index[z])}

\* C2: getHostZoneID returns a zone whose name is a suffix of the hostname and
\* is as long as any zone name that is a suffix of it, and returns the empty
\* ID when no zone name is a suffix of the hostname.
C2_ZoneSelection ==
    zDone =>
        IF SuffixZones(zHost, zIndex) = {} THEN zResult = ""
        ELSE /\ zResult \in SuffixZones(zHost, zIndex)
             /\ \A z \in SuffixZones(zHost, zIndex) : Len(zIndex[z]) <= Len(zIndex[zResult])

\* a hostname with two suffix zones of different lengths got the longer one
C2_Witness ==
    /\ zDone
    /\ zResult # ""
    /\ \E z \in SuffixZones(zHost, zIndex) : Len(zIndex[z]) < Len(zIndex[zResult])

\* C3: a zone is selected for a hostname only if the hostname equals the zone
\* name or ends with a dot followed by the zone name (x-t.c. is not in t.c.).
C3_LabelBoundary ==
    (zDone /\ zResult # "") =>
        \/ zHost = zIndex[zResult]
        \/ HasSuffix(zHost, <<DOT>> \o zIndex[zResult])

-----------------------------------------------------------------------------
(* Properties of Records and ApplyChanges                                   *)

\* an ApplyChanges call has returned
Applied == stage \in {"applied", "reapplied"}

BatchEndpoints(ch) ==
    Range(ch.Create) \cup Range(ch.UpdateOld) \cup Range(ch.UpdateNew) \cup Range(ch.Delete)

\* the endpoint is for the (hostname, type) of the remote record set
NamesRecordSet(ep, rs) ==
    /\ ep.RecordType = rs.Type
    /\ canonicalizeDomainName(ep.DNSName) = rs.Name

\* the endpoint carries the three labels Records gives the record set
CarriesLabelsOf(ep, rs) ==
    /\ Label(ep, designateZoneID) = rs.ZoneID
    /\ Label(ep, designateRecordSetID) = rs.ID
    /\ Label(ep, designateOriginalRecords) = Join(rs.Records)

\* a target as the remote service stores it for the record type
StoredForm(t, type) == IF type = RecordTypeCNAME THEN canonicalizeDomainName(t) ELSE t

\* the stored targets the endpoint names
NamedBy(ep) == {StoredForm(ep.Targets[i], ep.RecordType) : i \in 1..Len(ep.Targets)}
                 \cup Range(ep.Targets)

\* the targets of a record set of the remote state, none when it is gone
RemoteTargets(rsets, id) == IF id \in DOMAIN rsets THEN Range(rsets[id].Records) ELSE {}

\* C1: after an update batch of one update-old endpoint naming a target a of
\* an existing record set with two or more targets S and one update-new
\* endpoint naming a target b, both carrying the labels of the record set, the
\* record set holds exactly (S minus {a}) plus {b}.
C1_SiblingPreservation ==
    (stage = "applied" /\ ~dryRun) =>
        \A id \in DOMAIN pre :
            LET rs == pre[id]
                S == Range(rs.Records)
            IN  ( /\ Cardinality(S) >= 2
                  /\ changes.Create = <<>> /\ changes.Delete = <<>>
                  /\ Len(changes.UpdateOld) = 1 /\ Len(changes.UpdateNew) = 1
                  /\ \A ep \in BatchEndpoints(changes) :
                        /\ NamesRecordSet(ep, rs)
                        /\ CarriesLabelsOf(ep, rs)
                        /\ Len(ep.Targets) = 1
                  /\ StoredForm(changes.UpdateOld[1].Targets[1], rs.Type) \in S
                  /\ changes.UpdateNew[1].Targets # changes.UpdateOld[1].Targets )
                => RemoteTargets(recordSets, id)
                     = (S \ {StoredForm(changes.UpdateOld[1].Targets[1], rs.Type)})
                       \cup {StoredForm(changes.UpdateNew[1].Targets[1], rs.Type)}

\* the batch names the target t of the record set in an update-old or a delete
\* endpoint for its (hostname, type)
NamedForRemoval(ch, rs, t) ==
    \E ep \in Range(ch.UpdateOld) \cup Range(ch.Delete) :
        NamesRecordSet(ep, rs) /\ t \in NamedBy(ep)

\* the endpoint refers to the record set: by hostname and type, or by the
\* recordset-id label
RefersTo(ep, rs) == NamesRecordSet(ep, rs) \/ Label(ep, designateRecordSetID) = rs.ID

\* C4 as stated: after a successful ApplyChanges, whatever labels the batch
\* carries, every target of a record set that no update-old or delete endpoint
\* names for its (hostname, type) is still in the record set.
C4_NeverClobbered ==
    (stage = "applied" /\ err = NoError) =>
        \A id \in DOMAIN pre :
            \A t \in Range(pre[id].Records) :
                ~NamedForRemoval(changes, pre[id], t) => t \in RemoteTargets(recordSets, id)

\* C4 amended: the same, for the record sets such that every endpoint of the
\* batch that refers to them, by hostname and type or by the recordset-id
\* label, has their hostname and type and carries their labels (zone-id,
\* recordset-id, original-records as Records returns them).
C4_NeverClobberedLabelled ==
    (stage = "applied" /\ err = NoError) =>
        \A id \in DOMAIN pre :
            (\A ep \in BatchEndpoints(changes) :
                 RefersTo(ep, pre[id])
                     => (NamesRecordSet(ep, pre[id]) /\ CarriesLabelsOf(ep, pre[id])))
            => \A t \in Range(pre[id].Records) :
                   ~NamedForRemoval(changes, pre[id], t) => t \in RemoteTargets(recordSets, id)

\* a labelled removal of one target of a record set of two was applied by an
\* update call, and the other target is still there
C4_Witness ==
    /\ stage = "applied" /\ ~dryRun /\ err = NoError
    /\ \E id \in DOMAIN pre :
          /\ Cardinality(Range(pre[id].Records)) = 2
          /\ \E ep \in BatchEndpoints(changes) : RefersTo(ep, pre[id])
          /\ \A ep \in BatchEndpoints(changes) :
                RefersTo(ep, pre[id])
                    => (NamesRecordSet(ep, pre[id]) /\ CarriesLabelsOf(ep, pre[id]))
          /\ \E t \in Range(pre[id].Records) : NamedForRemoval(changes, pre[id], t)
          /\ \E t \in Range(pre[id].Records) : ~NamedForRemoval(changes, pre[id], t)
          /\ \E i \in 1..Len(calls) : calls[i].op = "update" /\ calls[i].recordSetID = id
          /\ id \in DOMAIN recordSets
          /\ Cardinality(Range(recordSets[id].Records)) = 1

\* C5: a delete batch whose endpoints carry the labels of an existing record
\* set and name all its targets issues a delete of the record set, which is
\* gone afterwards; no update call carries an empty target list.
C5_DeleteToEmpty ==
    (stage = "applied" /\ ~dryRun) =>
        /\ \A i \in 1..Len(calls) : calls[i].op = "update" => calls[i].opts.Records # <<>>
        /\ \A id \in DOMAIN pre :
              ( /\ changes.Delete # <<>>
                /\ changes.Create = <<>> /\ changes.UpdateOld = <<>>
                /\ changes.UpdateNew = <<>>
                /\ \A ep \in Range(changes.Delete) :
                      NamesRecordSet(ep, pre[id]) /\ CarriesLabelsOf(ep, pre[id])
                /\ Range(pre[id].Records) \subseteq UNION {NamedBy(ep) : ep \in Range(changes.Delete)} )
              => /\ id \notin DOMAIN recordSets
                 /\ \E i \in 1..Len(calls) :
                       calls[i].op = "delete" /\ calls[i].recordSetID = id

\* C6: with dryRun set ApplyChanges issues no call, returns no error and
\* leaves the remote record sets as they were; the endpoints read after the
\* call are a listing of the record sets before the call.
C6_DryRunNoOp ==
    dryRun =>
        /\ Applied => /\ calls = <<>>
                      /\ err = NoError
                      /\ recordSets = pre
        /\ stage = "reread" => out \in Records(RemoteZones, pre)

\* a dry run went through a delete, an update and a create decision
C6_Witness ==
    /\ dryRun
    /\ stage = "reread"
    /\ \E i \in 1..Len(attempts) :
          /\ attempts[i].rs.zoneID # ""
          /\ attempts[i].rs.recordSetID # ""
          /\ attempts[i].records = <<>>
    /\ \E i \in 1..Len(attempts) :
          /\ attempts[i].rs.zoneID # ""
          /\ attempts[i].records # <<>>

\* the record sets of the remote state for the (hostname, type) of an endpoint
RecordSetsFor(rsets, ep) ==
    {id \in DOMAIN rsets :
        /\ rsets[id].Name = canonicalizeDomainName(ep.DNSName)
        /\ rsets[id].Type = ep.RecordType}

\* C7: after a create batch is applied, the endpoints are read and the batch
\* is applied again with the labels read, there is one record set at most for
\* the (hostname, type) of every create, the second application issues only
\* updates and leaves every record set with the targets it had.
C7_Idempotence ==
    (stage = "reapplied" /\ ~dryRun) =>
        /\ \A c \in Range(changes.Create) : Cardinality(RecordSetsFor(recordSets, c)) <= 1
        /\ \A i \in 1..Len(calls) : calls[i].op = "update"
        /\ DOMAIN recordSets = DOMAIN pre
        /\ \A id \in DOMAIN pre : RemoteTargets(recordSets, id) = Range(pre[id].Records)

\* the endpoints read for the (hostname, type) of an endpoint
ReadFor(read, ep) ==
    {i \in 1..Len(read) :
        /\ canonicalizeDomainName(read[i].DNSName) = canonicalizeDomainName(ep.DNSName)
        /\ read[i].RecordType = ep.RecordType}

\* ApplyChanges was called with one create endpoint for a (hostname, type)
\* that had no record set, issued the create, and the endpoints were read
CreatedAndRead ==
    /\ stage = "reread" /\ ~dryRun /\ err = NoError
    /\ Len(changes.Create) = 1
    /\ changes.UpdateOld = <<>> /\ changes.UpdateNew = <<>> /\ changes.Delete = <<>>
    /\ RecordSetsFor(pre, changes.Create[1]) = {}
    /\ Len(calls) = 1 /\ calls[1].op = "create"

\* C8 as stated: the one endpoint read for a created (h, t, T) has hostname h,
\* the targets of T, non-empty zone-id and recordset-id labels and
\* original-records made of the targets of T (the order of the targets is not
\* compared).
C8_RoundTrip ==
    CreatedAndRead =>
        LET c == changes.Create[1]
        IN  /\ Cardinality(ReadFor(out, c)) = 1
            /\ \A i \in ReadFor(out, c) :
                  /\ out[i].DNSName = c.DNSName
                  /\ Range(out[i].Targets) = Range(c.Targets)
                  /\ Label(out[i], designateZoneID) # ""
                  /\ Label(out[i], designateRecordSetID) # ""
                  /\ Range(Split(Label(out[i], designateOriginalRecords)))
                       = Range(c.Targets)

\* C8 amended: the one endpoint read has hostname h in canonical form without
\* the trailing dot; its targets are the targets stored by the create call, in
\* the order stored and without their trailing dot; those are the targets of T
\* in some order for A and TXT and canonical forms of targets of T for CNAME;
\* the zone-id and recordset-id labels are not empty and original-records is
\* the stored targets joined by NUL.
C8_RoundTripStored ==
    CreatedAndRead =>
        LET c == changes.Create[1]
            stored == calls[1].opts.Records
        IN  /\ Cardinality(ReadFor(out, c)) = 1
            /\ \A i \in ReadFor(out, c) :
                  /\ out[i].DNSName = TrimSuffixDot(canonicalizeDomainName(c.DNSName))
                  /\ out[i].Targets = [j \in 1..Len(stored) |-> TrimSuffixDot(stored[j])]
                  /\ Len(stored) = Cardinality(Range(stored))
                  /\ IF c.RecordType = RecordTypeCNAME
                     THEN Range(stored) \subseteq
                            {canonicalizeDomainName(t) : t \in Range(c.Targets)}
                     ELSE Range(stored) = Range(c.Targets)
                  /\ Label(out[i], designateZoneID) # ""
                  /\ Label(out[i], designateRecordSetID) # ""
                  /\ Label(out[i], designateOriginalRecords) = Join(stored)

\* a CNAME with the target x under the upper-case name W.e.t was created and
\* read back
C8_Witness ==
    /\ CreatedAndRead
    /\ changes.Create[1].DNSName = HostWET
    /\ changes.Create[1].RecordType = RecordTypeCNAME
    /\ changes.Create[1].Targets = << <<"x">> >>
    /\ \E i \in 1..Len(out) : out[i].RecordType = RecordTypeCNAME

\* the calls the client received for the i-th entry processed
CallsOf(i) ==
    SubSeq(attempts[i].st.calls,
           (IF i = 1 THEN 0 ELSE Len(attempts[i - 1].st.calls)) + 1,
           Len(attempts[i].st.calls))

\* the targets the entry wants
Wanted(rs) == {rec \in DOMAIN rs.names : rs.names[rec]}

\* the calls of the i-th entry are what the four-way decision prescribes
DecisionFollowed(i) ==
    LET rs == attempts[i].rs
        cs == CallsOf(i)
    IN  IF rs.recordSetID = "" /\ Wanted(rs) = {} THEN cs = <<>>
        ELSE /\ Len(cs) = 1
             /\ cs[1].zoneID = rs.zoneID
             /\ IF rs.recordSetID = ""
                THEN /\ cs[1].op = "create"
                     /\ cs[1].opts.Name = rs.dnsName
                     /\ cs[1].opts.Type = rs.recordType
                     /\ Range(cs[1].opts.Records) = Wanted(rs)
                     /\ Len(cs[1].opts.Records) = Cardinality(Wanted(rs))
                     /\ cs[1].opts.TTL = rs.ttl
                ELSE IF Wanted(rs) = {}
                THEN /\ cs[1].op = "delete"
                     /\ cs[1].recordSetID = rs.recordSetID
                ELSE /\ cs[1].op = "update"
                     /\ cs[1].recordSetID = rs.recordSetID
                     /\ Range(cs[1].opts.Records) = Wanted(rs)
                     /\ Len(cs[1].opts.Records) = Cardinality(Wanted(rs))
                     /\ cs[1].opts.TTL = rs.ttl

\* C9 as stated: every entry with a resolved zone issues nothing, one create,
\* one delete or one update, as its recordSetID and its wanted targets decide.
C9_FourWayDecision ==
    Applied =>
        \A i \in 1..Len(attempts) : attempts[i].rs.zoneID # "" => DecisionFollowed(i)

\* C9 amended: the same when dry-run is off.
C9_FourWayDecisionNoDryRun ==
    (Applied /\ ~dryRun) =>
        \A i \in 1..Len(attempts) : attempts[i].rs.zoneID # "" => DecisionFollowed(i)

\* one entry updated a record set with two wanted targets, another had nothing
\* to do in its zone
C9_Witness ==
    /\ Applied /\ ~dryRun
    /\ \E i \in 1..Len(attempts) :
          /\ attempts[i].rs.recordSetID # ""
          /\ Cardinality(Wanted(attempts[i].rs)) = 2
          /\ Len(CallsOf(i)) = 1 /\ CallsOf(i)[1].op = "update"
    /\ \E i \in 1..Len(attempts) :
          /\ attempts[i].rs.zoneID # ""
          /\ attempts[i].rs.recordSetID = ""
          /\ Wanted(attempts[i].rs) = {}
          /\ CallsOf(i) = <<>>

-----------------------------------------------------------------------------
(* ApplyChanges against a remote service whose calls can fail               *)

\* endpoints in one change batch when calls can fail
MaxFailBatch == 3

\* requests of type A: creates of the target 1 under every hostname; for every
\* endpoint read, a delete of all its targets and an addition of the target 3,
\* both with the labels read
FailItems(read) ==
    ({"Create"} \X {Endpoint(h, RecordTypeA, << <<"1">> >>, ttl, <<>>) :
                       h \in Hosts, ttl \in RequestTTLs})
    \cup UNION {{<<"Delete", Endpoint(e.DNSName, e.RecordType, e.Targets,
                                     e.RecordTTL, e.Labels)>>,
                 <<"UpdateNew", Endpoint(e.DNSName, e.RecordType, << <<"3">> >>,
                                        e.RecordTTL, e.Labels)>>}
                : e \in {r \in Range(read) : r.RecordType = RecordTypeA}}

FailBatches(read) ==
    {Changes(items) :
        items \in UNION {[1..n -> FailItems(read)] : n \in 1..MaxFailBatch}}

InitFail == Init /\ ~dryRun

\* an ApplyChanges call during which the calls of some entries fail
DoApplyFailing ==
    /\ stage = "read"
    /\ \E ch \in FailBatches(out) :
         \E failing \in SUBSET {EntryKey(ep) : ep \in BatchEndpoints(ch)} :
           \E run \in ApplyChangesRuns([recordSets |-> recordSets, nextID |-> nextID,
                                        calls |-> <<>>],
                                       ch, dryRun, failing) :
              /\ changes' = ch
              /\ pre' = recordSets
              /\ recordSets' = run.st.recordSets
              /\ nextID' = run.st.nextID
              /\ calls' = run.st.calls
              /\ attempts' = run.attempts
              /\ err' = run.err
    /\ stage' = "applied"
    /\ UNCHANGED <<dryRun, out, readErr, faults>>
    /\ UNCHANGED zvars
    /\ UNCHANGED svars
    /\ UNCHANGED inflight

NextFail == DoRecords \/ DoApplyFailing

SpecFail == InitFail /\ [][NextFail]_vars

\* the entries whose upsertRecordSet returned an error
Failed == {i \in 1..Len(attempts) : attempts[i].err # NoError}

\* the remote record sets before the i-th entry was processed
RecordSetsBefore(i) == IF i = 1 THEN pre ELSE attempts[i - 1].st.recordSets

\* the side effect of the i-th entry, which succeeded, is in the remote state
EffectKept(i) ==
    LET rs == attempts[i].rs
        cs == CallsOf(i)
    IN  cs # <<>> =>
        CASE cs[1].op = "create" ->
               \E id \in DOMAIN attempts[i].st.recordSets \ DOMAIN RecordSetsBefore(i) :
                   /\ id \in DOMAIN recordSets
                   /\ recordSets[id].ZoneID = rs.zoneID
                   /\ recordSets[id].Name = rs.dnsName
                   /\ recordSets[id].Type = rs.recordType
                   /\ recordSets[id].Records = cs[1].opts.Records
          [] cs[1].op = "delete" -> rs.recordSetID \notin DOMAIN recordSets
          [] cs[1].op = "update" ->
               \/ \E j \in (i + 1)..Len(attempts) :
                     /\ j \notin Failed
                     /\ attempts[j].rs.recordSetID = rs.recordSetID
               \/ /\ rs.recordSetID \in DOMAIN recordSets
                  /\ recordSets[rs.recordSetID].Records = cs[1].opts.Records

\* C10: whichever entries fail, ApplyChanges processes every entry of the
\* batch once and every entry with something to do issues its one call; the
\* side effects of the entries that succeeded are kept; the error returned is
\* that of the first entry that failed, and nil when none failed.
C10_FailPartial ==
    (stage = "applied" /\ ~dryRun) =>
        /\ {attempts[i].key : i \in 1..Len(attempts)}
             = {EntryKey(ep) : ep \in BatchEndpoints(changes)}
        /\ \A i, j \in 1..Len(attempts) : attempts[i].key = attempts[j].key => i = j
        /\ \A i \in 1..Len(attempts) :
              /\ attempts[i].rs.zoneID # "" => DecisionFollowed(i)
              /\ attempts[i].rs.zoneID = "" => CallsOf(i) = <<>>
              /\ i \notin Failed => EffectKept(i)
        /\ IF Failed = {} THEN err = NoError
           ELSE /\ err # NoError
                /\ \E i \in Failed : /\ \A j \in Failed : i <= j
                                     /\ err = attempts[i].err

\* the first and the third entry failed and the second one, between them,
\* created a record set
C10_Witness ==
    /\ stage = "applied" /\ ~dryRun
    /\ Len(attempts) = 3
    /\ Failed = {1, 3}
    /\ attempts[1].err # attempts[3].err
    /\ Len(CallsOf(2)) = 1 /\ CallsOf(2)[1].op = "create"
    /\ DOMAIN recordSets # DOMAIN pre

-----------------------------------------------------------------------------
(* Further properties of ApplyChanges                                       *)

\* the aggregation maps ApplyChanges can have built (one for every listing of
\* the record sets it found)
Aggregations == {foldChanges(changes, l) : l \in Records(RemoteZones, pre)}

\* C12: an entry without zone ID whose canonical hostname has no managed zone
\* name as suffix issues no call, changes nothing and returns no error.
C12_UnresolvedZoneSkip ==
    Applied =>
        \A agg \in Aggregations : \A i \in 1..Len(attempts) :
            LET key == attempts[i].key
            IN  ( /\ key \in DOMAIN agg
                  /\ agg[key].zoneID = ""
                  /\ SuffixZones(agg[key].dnsName, getZones(RemoteZones)) = {} )
                => /\ CallsOf(i) = <<>>
                   /\ attempts[i].err = NoError
                   /\ attempts[i].st.recordSets = RecordSetsBefore(i)

\* an entry with a wanted target and no zone was skipped next to an entry that
\* issued its call
C12_Witness ==
    /\ Applied /\ ~dryRun /\ err = NoError
    /\ \E i \in 1..Len(attempts) :
          /\ attempts[i].rs.zoneID = ""
          /\ Wanted(attempts[i].rs) # {}
          /\ CallsOf(i) = <<>>
    /\ \E i \in 1..Len(attempts) : Len(CallsOf(i)) = 1

\* C16: after an update batch of one update-old and one update-new endpoint
\* under the same hostname, carrying the labels of an existing record set and
\* different TTLs, the record set has the TTL of the update-new endpoint.
C16_UpdateAppliesNewTTL ==
    (stage = "applied" /\ ~dryRun /\ err = NoError) =>
        \A id \in DOMAIN pre :
            ( /\ changes.Create = <<>> /\ changes.Delete = <<>>
              /\ Len(changes.UpdateOld) = 1 /\ Len(changes.UpdateNew) = 1
              /\ changes.UpdateOld[1].DNSName = changes.UpdateNew[1].DNSName
              /\ changes.UpdateOld[1].RecordTTL # changes.UpdateNew[1].RecordTTL
              /\ \A ep \in BatchEndpoints(changes) :
                    NamesRecordSet(ep, pre[id]) /\ CarriesLabelsOf(ep, pre[id]) )
            => /\ id \in DOMAIN recordSets
               /\ recordSets[id].TTL = changes.UpdateNew[1].RecordTTL

\* the stored targets a list of endpoints names
StoredTargets(eps) ==
    UNION {{StoredForm(eps[i].Targets[j], eps[i].RecordType) : j \in 1..Len(eps[i].Targets)}
           : i \in 1..Len(eps)}

\* C17: two or more create endpoints without labels, under one hostname and
\* record type that has a managed zone and no record set, with different
\* targets, result in one create call for the canonical hostname and the type,
\* carrying the union of their targets.
C17_CreatesFold ==
    ( /\ stage = "applied" /\ ~dryRun
          /\ Len(changes.Create) >= 2
          /\ changes.UpdateOld = <<>> /\ changes.UpdateNew = <<>> /\ changes.Delete = <<>>
          /\ \A i, j \in 1..Len(changes.Create) :
                /\ changes.Create[i].DNSName = changes.Create[j].DNSName
                /\ changes.Create[i].RecordType = changes.Create[j].RecordType
                /\ i # j => changes.Create[i].Targets # changes.Create[j].Targets
          /\ \A c \in Range(changes.Create) :
                /\ c.Labels = <<>>
                /\ RecordSetsFor(pre, c) = {}
                /\ SuffixZones(canonicalizeDomainName(c.DNSName), getZones(RemoteZones)) # {} )
        => /\ Len(calls) = 1
           /\ calls[1].op = "create"
           /\ calls[1].opts.Name = canonicalizeDomainName(changes.Create[1].DNSName)
           /\ calls[1].opts.Type = changes.Create[1].RecordType
           /\ Range(calls[1].opts.Records) = StoredTargets(changes.Create)

\* C18: a create endpoint without labels, whose hostname and type are those of
\* an endpoint of the listing, is applied as one update of the record set
\* listed; afterwards that is the one record set for the (hostname, type) and
\* it holds the targets of the create endpoint.
C18_BackfillUpdates ==
    (stage = "applied" /\ ~dryRun) =>
        \A id \in DOMAIN pre :
            ( /\ Len(changes.Create) = 1
              /\ changes.UpdateOld = <<>> /\ changes.UpdateNew = <<>> /\ changes.Delete = <<>>
              /\ changes.Create[1].Labels = <<>>
              /\ changes.Create[1].RecordType = pre[id].Type
              /\ SupportedType(pre[id].Type)
              /\ changes.Create[1].DNSName = TrimSuffixDot(pre[id].Name) )
            => /\ Len(calls) = 1
               /\ calls[1].op = "update"
               /\ calls[1].recordSetID = id
               /\ RecordSetsFor(recordSets, changes.Create[1]) = {id}
               /\ RemoteTargets(recordSets, id) = StoredTargets(changes.Create)

-----------------------------------------------------------------------------
(* The zone index on its own: getZones applied to the zones of the remote   *)
(* service under a domain filter                                            *)

\* zones in the remote service given to getZones
MaxIndexZones == 2

\* zone names t., T (upper case, no trailing dot), e.t; zone types and
\* statuses in several spellings
IndexZoneNames == {<<"t", ".">>, <<"T">>, <<"e", ".", "t">>}
IndexZoneTypes == {"", "PRIMARY", "primary", "Primary", "SECONDARY", "secondary"}
IndexZoneStatuses == {"ACTIVE", "active", "PENDING"}

IndexZones ==
    UNION {[I -> [Name : IndexZoneNames, Type : IndexZoneTypes, Status : IndexZoneStatuses]]
           : I \in {J \in SUBSET {"za", "zb"} : Cardinality(J) <= MaxIndexZones}}

\* domain filters: none, e.t, u
IndexFilters == {{}, {<<"e", ".", "t">>}, {<<"u">>}}

InitIndex ==
    /\ ProviderIdle
    /\ zHost = <<>>
    /\ zIndex = <<>>
    /\ zResult = ""
    /\ zDone = FALSE
    /\ zZones \in IndexZones
    /\ zFilter \in IndexFilters

DoGetZones ==
    /\ ~zDone
    /\ zIndex' = getZonesWith(zZones, zFilter)
    /\ zDone' = TRUE
    /\ UNCHANGED <<zHost, zResult, zZones, zFilter>>
    /\ UNCHANGED pvars
    /\ UNCHANGED svars

NextIndex == DoGetZones

SpecIndex == InitIndex /\ [][NextIndex]_vars

\* the spellings of PRIMARY, case ignored, among the zone types
PrimarySpellings == {"PRIMARY", "primary", "Primary"}

\* the zone names of IndexZoneNames in lower case with a trailing dot
CanonicalZoneName(name) ==
    CASE name = <<"t", ".">> -> <<"t", ".">>
      [] name = <<"T">> -> <<"t", ".">>
      [] name = <<"e", ".", "t">> -> <<"e", ".", "t", ".">>

\* C13: a zone is in the index returned by getZones if and only if its type
\* is empty or PRIMARY in any case, its status is ACTIVE and the domain filter
\* accepts its canonical name; the index maps it to its name in lower case
\* with a trailing dot.
C13_ManagedZoneIndex ==
    zDone =>
        /\ DOMAIN zIndex \subseteq DOMAIN zZones
        /\ \A id \in DOMAIN zZones :
              LET zone == zZones[id]
                  canonical == CanonicalZoneName(zone.Name)
              IN  /\ id \in DOMAIN zIndex <=>
                        /\ zone.Type = "" \/ zone.Type \in PrimarySpellings
                        /\ zone.Status = "ACTIVE"
                        /\ DomainFilterMatch(zFilter, canonical)
                  /\ id \in DOMAIN zIndex => zIndex[id] = canonical

\* a zone T of type primary is in the index as t., next to a zone left out for
\* its status only
C13_Witness ==
    /\ zDone
    /\ \E id \in DOMAIN zIndex :
          /\ zZones[id].Name = <<"T">>
          /\ zZones[id].Type = "primary"
          /\ zIndex[id] = <<"t", ".">>
    /\ \E id \in DOMAIN zZones :
          /\ id \notin DOMAIN zIndex
          /\ zZones[id].Status = "active"
          /\ zZones[id].Type = ""

-----------------------------------------------------------------------------
(* Records and ApplyChanges against a remote service whose listing calls    *)
(* can fail                                                                 *)

\* record sets in the remote service at the start, endpoints in one batch
MaxFaultRS == 3
MaxFaultBatch == 2

\* the record sets of InitCatalog and one in the zone u., which is not managed
ReadCatalog ==
    InitCatalog \o
    << [ZoneID |-> "z3", Name |-> <<"s", ".", "u", ".">>, Type |-> "A",
        Records |-> << <<"1">> >>, TTL |-> 60] >>

ReadRemotes ==
    {[id \in {generateDesignateID(i) : i \in I} |->
        LET i == CHOOSE j \in I : generateDesignateID(j) = id
        IN  [ID |-> id, ZoneID |-> ReadCatalog[i].ZoneID, Name |-> ReadCatalog[i].Name,
             Records |-> ReadCatalog[i].Records, TTL |-> ReadCatalog[i].TTL,
             Type |-> ReadCatalog[i].Type]]
     : I \in {J \in SUBSET (1..Len(ReadCatalog)) : Cardinality(J) <= MaxFaultRS}}

\* the listing calls that can fail during one Records or ApplyChanges call
Faults(zoneCalls) == [zones : 0..zoneCalls, rsets : SUBSET {"z1", "z2"}]

FaultBatches(read) ==
    {Changes(items) :
        items \in UNION {[1..n -> FailItems(read)] : n \in 1..MaxFaultBatch}}

InitFault ==
    /\ ZoneMatcherIdle
    /\ recordSets \in ReadRemotes
    /\ nextID = Len(ReadCatalog)
    /\ dryRun = FALSE
    /\ stage = "start"
    /\ out = <<>>
    /\ changes = NoChanges
    /\ pre = recordSets
    /\ calls = <<>>
    /\ attempts = <<>>
    /\ err = NoError
    /\ readErr = NoError
    /\ faults = NoFaults
    /\ inflight = <<>>
    /\ ServerIdle

\* a Records call during which listing calls can fail
DoRecordsFaulty ==
    /\ stage \in {"start", "applied"}
    /\ \E f \in Faults(1) :
         \E read \in RecordsFaulty(RemoteZones, recordSets, f.zones = 1, f.rsets) :
            /\ faults' = f
            /\ out' = read.endpoints
            /\ readErr' = read.err
    /\ stage' = IF stage = "start" THEN "read" ELSE "reread"
    /\ UNCHANGED <<recordSets, nextID, dryRun, changes, pre, calls, attempts, err>>
    /\ UNCHANGED zvars
    /\ UNCHANGED svars
    /\ UNCHANGED inflight

\* an ApplyChanges call during which listing calls can fail
DoApplyFaulty ==
    /\ stage = "read"
    /\ \E ch \in FaultBatches(out) : \E f \in Faults(2) :
         \E run \in ApplyChangesFaulty([recordSets |-> recordSets, nextID |-> nextID,
                                        calls |-> <<>>],
                                       ch, dryRun, {}, f) :
            /\ faults' = f
            /\ changes' = ch
            /\ pre' = recordSets
            /\ recordSets' = run.st.recordSets
            /\ nextID' = run.st.nextID
            /\ calls' = run.st.calls
            /\ attempts' = run.attempts
            /\ err' = run.err
    /\ stage' = "applied"
    /\ UNCHANGED <<dryRun, out, readErr>>
    /\ UNCHANGED zvars
    /\ UNCHANGED svars
    /\ UNCHANGED inflight

NextFault == DoRecordsFaulty \/ DoApplyFaulty

SpecFault == InitFault /\ [][NextFault]_vars

\* a listing call of the last operation failed: a ForEachZone call, or the
\* ForEachRecordSet call of a managed zone
ListingFailed ==
    \/ faults.zones # 0
    \/ faults.rsets \cap DOMAIN getZones(RemoteZones) # {}

\* C11: when a listing call fails during ApplyChanges, the call returns an
\* error, issues no create, update or delete call and leaves the remote record
\* sets as they were.
C11_HardStopOnListingFailure ==
    (stage = "applied" /\ ListingFailed) =>
        /\ err # NoError
        /\ calls = <<>>
        /\ recordSets = pre

\* the record-set listing of zone e.t. failed during an ApplyChanges call with
\* a create for s.t, which has a zone and no record set
C11_Witness ==
    /\ stage = "applied"
    /\ faults = [zones |-> 0, rsets |-> {"z2"}]
    /\ \E c \in Range(changes.Create) : c.DNSName = HostST /\ RecordSetsFor(pre, c) = {}
    /\ err # NoError

\* a Records call has returned
HasRead == stage \in {"read", "reread"}

\* the record sets of type A, TXT or CNAME in the managed zones
ListedRecordSets ==
    {id \in DOMAIN recordSets :
        /\ recordSets[id].ZoneID \in DOMAIN getZones(RemoteZones)
        /\ recordSets[id].Type \in {"A", "TXT", "CNAME"}}

\* C19: Records returns one endpoint for each record set of type A, TXT or
\* CNAME of a managed zone and no other endpoint; the endpoint has the type
\* and the name of the record set and carries its ID, its zone ID and its
\* targets joined in order by NUL.
C19_ReaderOutput ==
    (HasRead /\ readErr = NoError) =>
        /\ Len(out) = Cardinality(ListedRecordSets)
        /\ \A i \in 1..Len(out) : Label(out[i], designateRecordSetID) \in ListedRecordSets
        /\ \A id \in ListedRecordSets :
              \E i \in 1..Len(out) :
                  /\ Label(out[i], designateRecordSetID) = id
                  /\ Label(out[i], designateZoneID) = recordSets[id].ZoneID
                  /\ Label(out[i], designateOriginalRecords) = Join(recordSets[id].Records)
                  /\ out[i].RecordType = recordSets[id].Type
                  /\ out[i].DNSName \o <<DOT>> = recordSets[id].Name

\* the A record set of s.t. was read from a remote service that also holds an
\* SRV record set and a record set in the zone u.
C19_Witness ==
    /\ HasRead /\ readErr = NoError
    /\ Len(out) = 1
    /\ Cardinality(DOMAIN recordSets) = 3
    /\ \E id \in DOMAIN recordSets : recordSets[id].Type = "SRV"
    /\ \E id \in DOMAIN recordSets : recordSets[id].ZoneID = "z3"

\* C20: Records returns an error exactly when a listing call failed, and then
\* it returns no endpoint.
C20_ReaderAborts ==
    HasRead =>
        /\ ListingFailed <=> readErr # NoError
        /\ readErr # NoError => out = <<>>

\* the listing of zone e.t. failed while zone t. holds a record set that
\* Records lists
C20_Witness ==
    /\ HasRead
    /\ readErr = ListingError("z2")
    /\ out = <<>>
    /\ \E id \in ListedRecordSets : recordSets[id].ZoneID = "z1"

-----------------------------------------------------------------------------
(* ApplyChanges on batches that name foreign zones and other record types *)

\* endpoints in one batch
MaxForeignBatch == 2

\* the labels Records would attach to the endpoint of a record set
LabelsOf(rs) ==
    (designateRecordSetID :> rs.ID) @@ (designateZoneID :> rs.ZoneID)
    @@ (designateOriginalRecords :> Join(rs.Records))

\* Requests of a source that is not the reader of this provider: creates of
\* type A or SRV under s.t and s.u, without labels or with a zone-id label that
\* names the zone u. (SECONDARY); deletes of any record set of the remote
\* service, labelled as a reader without zone and type filter labels them; and
\* removals (update-old or delete) of one target of a record set, under the
\* hostname of the record set or under another hostname, with the labels of
\* the record set or without labels.
ForeignItems(rsets) ==
    ({"Create"} \X
        {Endpoint(h, t, <<x>>, ttl, labels) :
            h \in {HostST, HostSU}, t \in {RecordTypeA, "SRV"},
            x \in {<<"1">>, <<"2">>}, ttl \in RequestTTLs,
            labels \in {<<>>, (designateZoneID :> "z3")}})
    \cup ({"Delete"} \X
        {Endpoint(TrimSuffixDot(rsets[id].Name), rsets[id].Type, rsets[id].Records,
                  rsets[id].TTL, LabelsOf(rsets[id])) : id \in DOMAIN rsets})
    \cup ({"UpdateOld", "Delete"} \X
        UNION {{Endpoint(h, rsets[id].Type, <<TrimSuffixDot(x)>>, rsets[id].TTL, labels) :
                   h \in {TrimSuffixDot(rsets[id].Name),
                          IF TrimSuffixDot(rsets[id].Name) = HostST THEN HostWET ELSE HostST},
                   x \in Range(rsets[id].Records),
                   labels \in {LabelsOf(rsets[id]), <<>>}}
               : id \in DOMAIN rsets})

ForeignBatches(rsets) ==
    {Changes(items) :
        items \in UNION {[1..n -> ForeignItems(rsets)] : n \in 1..MaxForeignBatch}}

InitForeign == InitFault

\* an ApplyChanges call with a batch of foreign requests
DoApplyForeign ==
    /\ stage = "read"
    /\ \E ch \in ForeignBatches(recordSets) :
         \E run \in ApplyChangesRuns([recordSets |-> recordSets, nextID |-> nextID,
                                      calls |-> <<>>],
                                     ch, dryRun, {}) :
            /\ changes' = ch
            /\ pre' = recordSets
            /\ recordSets' = run.st.recordSets
            /\ nextID' = run.st.nextID
            /\ calls' = run.st.calls
            /\ attempts' = run.attempts
            /\ err' = run.err
    /\ stage' = "applied"
    /\ UNCHANGED <<dryRun, out, readErr, faults>>
    /\ UNCHANGED zvars
    /\ UNCHANGED svars
    /\ UNCHANGED inflight

NextForeign == DoRecords \/ DoApplyForeign

SpecForeign == InitForeign /\ [][NextForeign]_vars

\* C14: every create, update or delete call of ApplyChanges targets a zone of
\* the managed-zone index, whatever zone the zone-id labels of the batch name.
C14_WritesInsideManagedZones ==
    stage = "applied" =>
        \A i \in 1..Len(calls) : calls[i].zoneID \in DOMAIN getZones(RemoteZones)

\* C15: ApplyChanges issues no create, update or delete call for a record set
\* of a type other than A, TXT or CNAME.
C15_UnsupportedTypesNeverWritten ==
    stage = "applied" =>
        \A i \in 1..Len(calls) :
            /\ calls[i].op = "create" =>
                  calls[i].opts.Type \in {RecordTypeA, RecordTypeTXT, RecordTypeCNAME}
            /\ (calls[i].op \in {"update", "delete"} /\ calls[i].recordSetID \in DOMAIN pre) =>
                  pre[calls[i].recordSetID].Type \in {RecordTypeA, RecordTypeTXT, RecordTypeCNAME}

-----------------------------------------------------------------------------
(* Properties of the aggregator *)

\* C22: the endpoints of one record type whose hostnames have the same
\* canonical form fold into one entry, so that at most one entry per
\* (canonical hostname, record type) issues a call.
C22_OneEntryPerCanonicalName ==
    Applied =>
        \A i, j \in 1..Len(attempts) :
            ( /\ attempts[i].rs.dnsName = attempts[j].rs.dnsName
              /\ attempts[i].rs.recordType = attempts[j].rs.recordType
              /\ CallsOf(i) # <<>>
              /\ CallsOf(j) # <<>> )
            => i = j

\* C23: every target of a CNAME endpoint of the batch is in the target map of
\* its entry under its canonical form, with or without a trailing dot in the
\* batch.
C23_CNAMETargetsCanonical ==
    Applied =>
        \A agg \in Aggregations : \A ep \in BatchEndpoints(changes) :
            ep.RecordType = RecordTypeCNAME =>
                \A i \in 1..Len(ep.Targets) :
                    canonicalizeDomainName(ep.Targets[i]) \in DOMAIN agg[EntryKey(ep)].names

\* the endpoint names the target t: among its targets, for a CNAME endpoint
\* under the canonical form
NamesTarget(ep, t) ==
    IF ep.RecordType = RecordTypeCNAME
    THEN \E i \in 1..Len(ep.Targets) : canonicalizeDomainName(ep.Targets[i]) = t
    ELSE \E i \in 1..Len(ep.Targets) : ep.Targets[i] = t

\* the endpoints of a list of the batch that fold into the entry `key` and
\* name the target t
Naming(eps, key, t) == {ep \in Range(eps) : EntryKey(ep) = key /\ NamesTarget(ep, t)}

\* the targets the endpoints of the batch can name
BatchTargets(ch) ==
    UNION {{ep.Targets[i] : i \in 1..Len(ep.Targets)}
           \cup {canonicalizeDomainName(ep.Targets[i]) : i \in 1..Len(ep.Targets)}
           : ep \in BatchEndpoints(ch)}

\* in the entries of the record types `types`, a target named by operations
\* of several lists of the batch carries the flag of the last list that names
\* it, in the order creates, update-olds, update-news, deletes
PhaseOrderDecides(types) ==
    Applied =>
        \A agg \in Aggregations : \A key \in DOMAIN agg : \A t \in BatchTargets(changes) :
            LET rs == agg[key]
                flag == IF Naming(changes.Delete, key, t) # {} THEN FALSE
                        ELSE IF Naming(changes.UpdateNew, key, t) # {} THEN TRUE
                        ELSE IF Naming(changes.UpdateOld, key, t) # {} THEN FALSE
                        ELSE TRUE
            IN  ( /\ rs.recordType \in types
                  /\ Cardinality({l \in {changes.Create, changes.UpdateOld,
                                          changes.UpdateNew, changes.Delete} :
                                      Naming(l, key, t) # {}}) >= 2 )
                => /\ t \in DOMAIN rs.names
                   /\ rs.names[t] = flag

\* C24: for a target named by several operations on one entry, the wanted
\* flag is the one set by the last of them in the order creates, update-olds,
\* update-news, deletes.
C24_PhaseOrder == PhaseOrderDecides({RecordTypeA, RecordTypeTXT, RecordTypeCNAME})

\* the addEndpoint calls of ApplyChanges in their order: the endpoint and the
\* delete argument of each
FoldSteps(ch) ==
    [i \in 1..Len(ch.Create) |-> [ep |-> ch.Create[i], delete |-> FALSE]]
    \o [i \in 1..Len(ch.UpdateOld) |-> [ep |-> ch.UpdateOld[i], delete |-> TRUE]]
    \o [i \in 1..Len(ch.UpdateNew) |-> [ep |-> ch.UpdateNew[i], delete |-> FALSE]]
    \o [i \in 1..Len(ch.Delete) |-> [ep |-> ch.Delete[i], delete |-> TRUE]]

\* the aggregation map after the first n addEndpoint calls
RECURSIVE FoldUpTo(_, _, _)
FoldUpTo(ch, endpoints, n) ==
    IF n = 0 THEN <<>>
    ELSE addEndpoint(FoldSteps(ch)[n].ep, FoldUpTo(ch, endpoints, n - 1), endpoints,
                     FoldSteps(ch)[n].delete)

\* the target map of the entry `key`, empty when there is no such entry
NamesOf(agg, key) == IF key \in DOMAIN agg THEN agg[key].names ELSE <<>>

\* C25: folding an endpoint keeps the flag of every target that is already in
\* the target map of its entry and that the endpoint does not name itself,
\* and adds as wanted the targets of its original-records label that are not
\* in the map.
C25_ReplayKeepsMarks ==
    Applied =>
        \A l \in Records(RemoteZones, pre) :
            /\ FoldUpTo(changes, l, Len(FoldSteps(changes))) = foldChanges(changes, l)
            /\ \A n \in 1..Len(FoldSteps(changes)) :
                  LET ep == FoldSteps(changes)[n].ep
                      before == NamesOf(FoldUpTo(changes, l, n - 1), EntryKey(ep))
                      after == NamesOf(FoldUpTo(changes, l, n), EntryKey(ep))
                  IN  /\ \A t \in DOMAIN before :
                            ~NamesTarget(ep, t) => (t \in DOMAIN after /\ after[t] = before[t])
                      /\ \A t \in Range(Split(Label(ep, designateOriginalRecords))) :
                            (t # <<>> /\ t \notin DOMAIN before /\ ~NamesTarget(ep, t))
                            => (t \in DOMAIN after /\ after[t])

\* an update-old endpoint marked a target not wanted, the update-new endpoint
\* of the same entry carries it in its original-records label without naming
\* it, and the update call leaves it out
C25_Witness ==
    /\ stage = "applied"
    /\ \E o \in Range(changes.UpdateOld), u \in Range(changes.UpdateNew) :
          /\ EntryKey(o) = EntryKey(u)
          /\ \E t \in Range(Split(Label(u, designateOriginalRecords))) :
                /\ NamesTarget(o, t)
                /\ ~NamesTarget(u, t)
                /\ Len(calls) = 1
                /\ calls[1].op = "update"
                /\ t \notin Range(calls[1].opts.Records)

\* the canonical form of the hostnames of the change requests: lower case,
\* one trailing dot
CanonicalHost(h) ==
    CASE h = HostST -> <<"s", ".", "t", ".">>
      [] h = HostSTDot -> <<"s", ".", "t", ".">>
      [] h = HostWET -> <<"w", ".", "e", ".", "t", ".">>
      [] h = HostSU -> <<"s", ".", "u", ".">>
      [] OTHER -> h

\* C26: the name sent in a create call is the canonical form of the hostname
\* of the endpoints of its entry, and canonicalizing it again returns it
\* unchanged.
C26_CanonicalNameOnCreate ==
    Applied =>
        \A i \in 1..Len(attempts) :
            (CallsOf(i) # <<>> /\ CallsOf(i)[1].op = "create") =>
                /\ \A ep \in BatchEndpoints(changes) :
                      EntryKey(ep) = attempts[i].key =>
                          CallsOf(i)[1].opts.Name = CanonicalHost(ep.DNSName)
                /\ canonicalizeDomainName(CallsOf(i)[1].opts.Name) = CallsOf(i)[1].opts.Name

\* a create for the hostname W.e.t was sent under the name w.e.t., and one for
\* s.t. under s.t.
C26_Witness ==
    /\ stage = "applied"
    /\ \E c \in Range(changes.Create) : c.DNSName = HostWET
    /\ \E c \in Range(changes.Create) : c.DNSName = HostSTDot
    /\ \E i \in 1..Len(calls) :
          calls[i].op = "create" /\ calls[i].opts.Name = <<"w", ".", "e", ".", "t", ".">>
    /\ \E i \in 1..Len(calls) :
          calls[i].op = "create" /\ calls[i].opts.Name = <<"s", ".", "t", ".">>

-----------------------------------------------------------------------------
(* Further properties of the reconcile engine *)

\* C27: the target list of a create or update call is a function of the
\* wanted targets of the entry: upsertRecordSet can list the wanted targets of
\* an entry in one order only.
C27_DeterministicTargetOrder ==
    Applied =>
        \A i \in 1..Len(attempts) :
            (CallsOf(i) # <<>> /\ CallsOf(i)[1].op \in {"create", "update"}) =>
                \A a \in upsertRecordSet([recordSets |-> RecordSetsBefore(i),
                                          nextID |-> nextID, calls |-> <<>>],
                                         attempts[i].key, attempts[i].rs,
                                         getZones(RemoteZones), dryRun, {}) :
                    a.records = CallsOf(i)[1].opts.Records

-----------------------------------------------------------------------------
(* ApplyChanges on batches whose endpoints carry some of the labels *)

\* endpoints in one batch
MaxLabelBatch == 2

\* a label map restricted to some of its keys
RestrictLabels(labels, keys) == [k \in DOMAIN labels \cap keys |-> labels[k]]

\* the labels of a request made from the endpoint e that was read: some of the
\* labels of e, or some of the labels of a record set id-9 of the zone z3
PartialLabels(e) ==
    {RestrictLabels(labels, keys) :
        labels \in {e.Labels,
                    (designateZoneID :> "z3") @@ (designateRecordSetID :> "id-9")
                    @@ e.Labels},
        keys \in SUBSET {designateZoneID, designateRecordSetID, designateOriginalRecords}}

LabelItems(read) ==
    {"UpdateNew", "Delete"} \X
        UNION {{Endpoint(e.DNSName, e.RecordType, <<e.Targets[1]>>, e.RecordTTL, labels) :
                   labels \in PartialLabels(e)}
               : e \in Range(read)}

LabelBatches(read) ==
    {Changes(items) :
        items \in UNION {[1..n -> LabelItems(read)] : n \in 1..MaxLabelBatch}}

\* an ApplyChanges call with a batch of partly labelled requests
DoApplyLabelled ==
    /\ stage = "read"
    /\ \E ch \in LabelBatches(out) :
         \E run \in ApplyChangesRuns([recordSets |-> recordSets, nextID |-> nextID,
                                      calls |-> <<>>],
                                     ch, dryRun, {}) :
            /\ changes' = ch
            /\ pre' = recordSets
            /\ recordSets' = run.st.recordSets
            /\ nextID' = run.st.nextID
            /\ calls' = run.st.calls
            /\ attempts' = run.attempts
            /\ err' = run.err
    /\ stage' = "applied"
    /\ UNCHANGED <<dryRun, out, readErr, faults>>
    /\ UNCHANGED zvars
    /\ UNCHANGED svars
    /\ UNCHANGED inflight

NextLabel == DoRecords \/ DoApplyLabelled

SpecLabel == Init /\ [][NextLabel]_vars

\* the endpoints of the listing with the record type and the hostname of ep
MatchesOf(listing, ep) ==
    {i \in 1..Len(listing) :
        listing[i].RecordType = ep.RecordType /\ listing[i].DNSName = ep.DNSName}

\* C28: the backfill changes nothing on an endpoint that carries both the
\* zone-id and the recordset-id label; when one of the two is missing and the
\* listing has an endpoint of the same type and hostname, that label is taken
\* from the first such endpoint and every other label keeps its value.
C28_BackfillKeepsLabels ==
    Applied =>
        \A l \in Records(RemoteZones, pre) : \A ep \in BatchEndpoints(changes) :
            LET filled == addDesignateIDLabelsFromExistingEndpoints(l, ep)
                ids == {designateZoneID, designateRecordSetID}
                first == CHOOSE i \in MatchesOf(l, ep) : \A j \in MatchesOf(l, ep) : i <= j
            IN  /\ [filled EXCEPT !.Labels = ep.Labels] = ep
                /\ \A k \in DOMAIN ep.Labels :
                      k \in DOMAIN filled.Labels /\ filled.Labels[k] = ep.Labels[k]
                /\ (ids \subseteq DOMAIN ep.Labels \/ MatchesOf(l, ep) = {}) => filled = ep
                /\ (~(ids \subseteq DOMAIN ep.Labels) /\ MatchesOf(l, ep) # {}) =>
                      /\ DOMAIN filled.Labels = DOMAIN ep.Labels \cup ids
                      /\ \A k \in ids \ DOMAIN ep.Labels :
                            filled.Labels[k] = Label(l[first], k)

\* a request that carries the zone-id z3 and no recordset-id was folded while
\* the listing held an endpoint of its type and hostname in another zone: the
\* entry has the zone of the request and the record-set ID of the listing;
\* another request carried both labels of id-9 and kept them
C28_Witness ==
    /\ stage = "applied"
    /\ Len(attempts) = 2
    /\ \E ep \in BatchEndpoints(changes) :
          /\ DOMAIN ep.Labels = {designateZoneID}
          /\ ep.Labels[designateZoneID] = "z3"
          /\ \E i \in 1..Len(out) :
                /\ out[i].RecordType = ep.RecordType /\ out[i].DNSName = ep.DNSName
                /\ Label(out[i], designateZoneID) # "z3"
                /\ \E a \in 1..Len(attempts) :
                      /\ attempts[a].key = EntryKey(ep)
                      /\ attempts[a].rs.zoneID = "z3"
                      /\ attempts[a].rs.recordSetID = Label(out[i], designateRecordSetID)
    /\ \E ep \in BatchEndpoints(changes) :
          /\ {designateZoneID, designateRecordSetID} \subseteq DOMAIN ep.Labels
          /\ ep.Labels[designateRecordSetID] = "id-9"
          /\ \E a \in 1..Len(attempts) :
                /\ attempts[a].key = EntryKey(ep)
                /\ attempts[a].rs.recordSetID = "id-9"

\* the caller's batch as ApplyChanges leaves it: addEndpoint hands every
\* endpoint of the batch, a pointer, to the backfill, which writes the labels
\* into it
BatchAfterFold(ch, endpoints) ==
    [Create |-> [i \in 1..Len(ch.Create) |->
                    addDesignateIDLabelsFromExistingEndpoints(endpoints, ch.Create[i])],
     UpdateOld |-> [i \in 1..Len(ch.UpdateOld) |->
                    addDesignateIDLabelsFromExistingEndpoints(endpoints, ch.UpdateOld[i])],
     UpdateNew |-> [i \in 1..Len(ch.UpdateNew) |->
                    addDesignateIDLabelsFromExistingEndpoints(endpoints, ch.UpdateNew[i])],
     Delete |-> [i \in 1..Len(ch.Delete) |->
                    addDesignateIDLabelsFromExistingEndpoints(endpoints, ch.Delete[i])]]

\* C29: after ApplyChanges every endpoint of the batch has the labels, the
\* targets and the TTL it had before the call.
C29_BackfillPure ==
    Applied =>
        \A l \in Records(RemoteZones, pre) : BatchAfterFold(changes, l) = changes

-----------------------------------------------------------------------------
(* Overlapping ApplyChanges calls on one provider *)

\* ApplyChanges calls on the provider
MaxCalls == 2
CallIDs == 1..MaxCalls

\* the batches of the overlapping calls: one request of type A, planned from
\* the endpoints read
OverlapBatches(read) == {Changes(<<item>>) : item \in ChangeItems(read, RecordTypeA)}

\* the calls overlap on a remote service that holds a record set of type A,
\* the type of their batches, in every managed zone, so that the zone listings
\* of a call answer from different states of the service
InitOverlap ==
    /\ Init
    /\ ~dryRun
    /\ \A zoneID \in DOMAIN getZones(RemoteZones) :
          \E id \in DOMAIN recordSets :
              recordSets[id].ZoneID = zoneID /\ recordSets[id].Type = RecordTypeA

\* the remote service as the next client call finds it
RemoteNow == [recordSets |-> recordSets, nextID |-> nextID, calls |-> calls]

\* the locals of a call once its entry loop is over
Returned(call) == IF call.order = <<>> THEN [call EXCEPT !.phase = "returned"] ELSE call

\* the locals of a call whose getZones has returned: `zones` are the managed
\* zones Records has yet to list, in the order of its loop, once Records has
\* its own zone index; `listed` are the answers of ForEachRecordSet so far,
\* `after` the calls that had returned when the call began
Begun(ch) ==
    [phase |-> "zones", changes |-> ch, zones |-> <<>>, listed |-> <<>>,
     endpoints |-> <<>>, recordSets |-> <<>>, order |-> <<>>,
     after |-> {d \in DOMAIN inflight : inflight[d].phase = "returned"},
     before |-> <<>>, attempts |-> <<>>, err |-> NoError]

\* DoBeginApply mutated: a call waits until no other call is in flight
DoBeginApplyExclusive(c) ==
    /\ stage = "read"
    /\ c \notin DOMAIN inflight
    /\ \A d \in 1..(c - 1) : d \in DOMAIN inflight
    /\ \A d \in DOMAIN inflight : inflight[d].phase = "returned"
    /\ \E ch \in OverlapBatches(out) : inflight' = (c :> Begun(ch)) @@ inflight
    /\ UNCHANGED <<recordSets, nextID, dryRun, stage, out, changes, pre, calls, attempts,
                   err, readErr, faults>>
    /\ UNCHANGED zvars
    /\ UNCHANGED svars

\* ApplyChanges is called with a batch and its getZones lists the zones of the
\* service.  The calls are numbered in the order in which they begin.
DoBeginApply(c) ==
    /\ stage = "read"
    /\ c \notin DOMAIN inflight
    /\ \A d \in 1..(c - 1) : d \in DOMAIN inflight
    /\ \E ch \in OverlapBatches(out) : inflight' = (c :> Begun(ch)) @@ inflight
    /\ UNCHANGED <<recordSets, nextID, dryRun, stage, out, changes, pre, calls, attempts,
                   err, readErr, faults>>
    /\ UNCHANGED zvars
    /\ UNCHANGED svars

\* Records inside ApplyChanges lists the zones of the service again, for its
\* own zone index, which fixes the order in which its loop will visit the
\* managed zones
DoListZones(c) ==
    /\ c \in DOMAIN inflight
    /\ inflight[c].phase = "zones"
    /\ \E zoneOrder \in Orders(DOMAIN getZones(RemoteZones)) :
          inflight' = [inflight EXCEPT ![c] =
                          [@ EXCEPT !.phase = "listing", !.zones = zoneOrder]]
    /\ UNCHANGED <<recordSets, nextID, dryRun, stage, out, changes, pre, calls, attempts,
                   err, readErr, faults>>
    /\ UNCHANGED zvars
    /\ UNCHANGED svars

\* the locals of a call after ForEachRecordSet has answered for the next zone
\* with the endpoints eps, on the remote service rsets
Answered(call, rsets, eps) ==
    [call EXCEPT !.zones = Tail(@),
                 !.endpoints = @ \o eps,
                 !.listed = Append(@, [zoneID |-> Head(call.zones), recordSets |-> rsets,
                                       endpoints |-> eps])]

\* one turn of the loop of Records inside ApplyChanges: ForEachRecordSet lists
\* the next managed zone on the remote service as it is then.  After the last
\* zone the batch is folded over the endpoints listed; `order` is the order in
\* which the entry loop will visit the map.
DoListRecordSets(c) ==
    /\ c \in DOMAIN inflight
    /\ inflight[c].phase = "listing"
    /\ \E eps \in RecordsOfZone(recordSets, Head(inflight[c].zones)) :
       \E answered \in {Answered(inflight[c], recordSets, eps)} :
          IF answered.zones # <<>>
          THEN inflight' = [inflight EXCEPT ![c] = answered]
          ELSE \E agg \in {foldChanges(answered.changes, answered.endpoints)} :
               \E order \in Orders(DOMAIN agg) :
                  inflight' = [inflight EXCEPT ![c] =
                                  Returned([answered EXCEPT !.phase = "writing",
                                                            !.recordSets = agg,
                                                            !.order = order])]
    /\ UNCHANGED <<recordSets, nextID, dryRun, stage, out, changes, pre, calls, attempts,
                   err, readErr, faults>>
    /\ UNCHANGED zvars
    /\ UNCHANGED svars

\* DoUpsert mutated: the aggregation map is a field of the provider, so the
\* loop takes the entry from the map of the other call when it has the key
DoUpsertShared(c) ==
    /\ c \in DOMAIN inflight
    /\ inflight[c].phase = "writing"
    /\ LET key == Head(inflight[c].order)
           others == {d \in DOMAIN inflight \ {c} : key \in DOMAIN inflight[d].recordSets}
           agg == IF others = {} THEN inflight[c].recordSets
                  ELSE inflight[CHOOSE d \in others : TRUE].recordSets
       IN  \E a \in upsertRecordSet(RemoteNow, key, agg[key],
                                    getZones(RemoteZones), dryRun, {}) :
              /\ recordSets' = a.st.recordSets
              /\ nextID' = a.st.nextID
              /\ calls' = a.st.calls
              /\ inflight' = [inflight EXCEPT ![c] =
                    Returned([@ EXCEPT !.order = Tail(@),
                                       !.before = Append(@, RemoteNow),
                                       !.attempts = Append(@, a),
                                       !.err = keepError(@, a.err)])]
    /\ UNCHANGED <<dryRun, stage, out, changes, pre, attempts, err, readErr, faults>>
    /\ UNCHANGED zvars
    /\ UNCHANGED svars

\* one turn of the entry loop of ApplyChanges: upsertRecordSet for the next
\* entry of the call, on the remote service as it is then; the call returns
\* after its last entry
DoUpsert(c) ==
    /\ c \in DOMAIN inflight
    /\ inflight[c].phase = "writing"
    /\ LET key == Head(inflight[c].order)
       IN  \E a \in upsertRecordSet(RemoteNow, key, inflight[c].recordSets[key],
                                    getZones(RemoteZones), dryRun, {}) :
              /\ recordSets' = a.st.recordSets
              /\ nextID' = a.st.nextID
              /\ calls' = a.st.calls
              /\ inflight' = [inflight EXCEPT ![c] =
                    Returned([@ EXCEPT !.order = Tail(@),
                                       !.before = Append(@, RemoteNow),
                                       !.attempts = Append(@, a),
                                       !.err = keepError(@, a.err)])]
    /\ UNCHANGED <<dryRun, stage, out, changes, pre, attempts, err, readErr, faults>>
    /\ UNCHANGED zvars
    /\ UNCHANGED svars

NextOverlap ==
    \/ DoRecords
    \/ \E c \in CallIDs : DoBeginApply(c)
    \/ \E c \in CallIDs : DoListZones(c)
    \/ \E c \in CallIDs : DoListRecordSets(c)
    \/ \E c \in CallIDs : DoUpsert(c)

SpecOverlap == InitOverlap /\ [][NextOverlap]_vars

\* the endpoints a call has listed, zone after zone
RECURSIVE ListedEndpoints(_)
ListedEndpoints(listed) ==
    IF listed = <<>> THEN <<>>
    ELSE listed[1].endpoints \o ListedEndpoints(Tail(listed))

\* every answer of ForEachRecordSet a call got is a listing of the zone on the
\* remote service as it was then, and the call holds exactly those endpoints
ListedFromRemote(call) ==
    /\ \A i \in 1..Len(call.listed) :
          call.listed[i].endpoints
              \in RecordsOfZone(call.listed[i].recordSets, call.listed[i].zoneID)
    /\ call.endpoints = ListedEndpoints(call.listed)
    /\ call.phase \notin {"zones", "listing"} =>
          {call.listed[i].zoneID : i \in 1..Len(call.listed)} = DOMAIN getZones(RemoteZones)

\* C21: what a call does depends on its own batch, the configuration and the
\* answers of the remote service during the call: its listing of each zone is
\* a listing of the record sets of the service when it listed the zone, and
\* each of its attempts is what upsertRecordSet does for the entry folded from
\* its own batch and its own listing on the service as it was then, whatever
\* other calls the provider has served or is serving.
C21_NoSharedState ==
    \A c \in DOMAIN inflight :
        LET call == inflight[c]
            agg == foldChanges(call.changes, call.endpoints)
        IN  /\ ListedFromRemote(call)
            /\ \A i \in 1..Len(call.attempts) :
                  /\ call.attempts[i].key \in DOMAIN agg
                  /\ call.attempts[i] \in
                        upsertRecordSet(call.before[i], call.attempts[i].key,
                                        agg[call.attempts[i].key],
                                        getZones(RemoteZones), dryRun, {})
            /\ call.phase = "returned" => Len(call.attempts) = Cardinality(DOMAIN agg)

\* two overlapping calls with different batches for one entry have both issued
\* their call
C21_Witness ==
    /\ DOMAIN inflight = CallIDs
    /\ \A c \in CallIDs : inflight[c].phase = "returned" /\ inflight[c].after = {}
    /\ inflight[1].changes # inflight[2].changes
    /\ DOMAIN inflight[1].recordSets = DOMAIN inflight[2].recordSets
    /\ Len(calls) = 2

\* the record sets of the remote service when the call returned
RecordSetsAtReturn(call) ==
    IF call.attempts = <<>> THEN call.listed[Len(call.listed)].recordSets
    ELSE call.attempts[Len(call.attempts)].st.recordSets

\* C30: a call never waits for another call: the next call can begin, a call
\* that has begun can list the zones for Records, a call in the loop of
\* Records can list its next zone and a call in its entry loop can take its
\* next turn whatever the other calls are doing; every call
\* issues what its own listing prescribes; and a call that begins after
\* another has returned lists the record sets as that call left them.
C30_NoMutualExclusion ==
    /\ \A c \in CallIDs :
          (stage = "read" /\ c \notin DOMAIN inflight /\ 1..(c - 1) \subseteq DOMAIN inflight)
          => ENABLED DoBeginApply(c)
    /\ \A c \in DOMAIN inflight :
          /\ inflight[c].phase = "zones" => ENABLED DoListZones(c)
          /\ inflight[c].phase = "listing" => ENABLED DoListRecordSets(c)
          /\ inflight[c].phase = "writing" => ENABLED DoUpsert(c)
          /\ \A i \in 1..Len(inflight[c].attempts) :
                inflight[c].attempts[i].rs.names
                    = foldChanges(inflight[c].changes, inflight[c].endpoints)
                          [inflight[c].attempts[i].key].names
          /\ ListedFromRemote(inflight[c])
          /\ \A d \in inflight[c].after : \A i \in 1..Len(inflight[c].listed) :
                inflight[c].listed[i].recordSets = RecordSetsAtReturn(inflight[d])

\* the race: both calls listed the same record sets before either wrote, both
\* updated the same record set, and the second update leaves out a target that
\* the first one had added
C30_Witness ==
    /\ DOMAIN inflight = CallIDs
    /\ \A c \in CallIDs :
          /\ inflight[c].phase = "returned"
          /\ inflight[c].after = {}
          /\ \A i \in 1..Len(inflight[c].listed) : inflight[c].listed[i].recordSets = pre
    /\ Len(calls) = 2
    /\ calls[1].op = "update" /\ calls[2].op = "update"
    /\ calls[1].recordSetID = calls[2].recordSetID
    /\ \E t \in Range(calls[1].opts.Records) : \E c \in CallIDs :
          /\ t \notin Range(pre[calls[1].recordSetID].Records)
          /\ t \notin Range(calls[2].opts.Records)
          /\ t \notin Range(recordSets[calls[1].recordSetID].Records)
          /\ Len(inflight[c].before) = 1
          /\ inflight[c].before[1].calls # <<>>
          /\ \A ep \in BatchEndpoints(inflight[c].changes) : ~NamesTarget(ep, t)

-----------------------------------------------------------------------------
(* Properties of the remote state over serialized calls *)

\* C31: no two record sets of a zone have the same name and type.
C31_NoDuplicateRecordSets ==
    \A id1, id2 \in DOMAIN recordSets :
        ( /\ recordSets[id1].ZoneID = recordSets[id2].ZoneID
          /\ recordSets[id1].Name = recordSets[id2].Name
          /\ recordSets[id1].Type = recordSets[id2].Type )
        => id1 = id2

\* the record sets of `pre` that no endpoint of the batch names
Unnamed(ch) ==
    {id \in DOMAIN pre : \A ep \in BatchEndpoints(ch) : ~NamesRecordSet(ep, pre[id])}

\* C32: ApplyChanges leaves every record set as it was whose (hostname, type)
\* no endpoint of the batch names; with an empty batch it issues no call and
\* returns nil.
C32_Frame ==
    Applied =>
        /\ \A id \in Unnamed(changes) :
              id \in DOMAIN recordSets /\ recordSets[id] = pre[id]
        /\ changes = NoChanges => (calls = <<>> /\ err = NoError /\ recordSets = pre)

\* a call changed the record set the batch names and left the other one, which
\* has the same type, as it was
C32_Witness ==
    /\ stage = "applied"
    /\ \E id \in Unnamed(changes) : \E id2 \in DOMAIN pre \ Unnamed(changes) :
          /\ pre[id].Type = pre[id2].Type
          /\ recordSets[id] = pre[id]
          /\ id2 \in DOMAIN recordSets
          /\ recordSets[id2] # pre[id2]

-----------------------------------------------------------------------------
(* Deleting what was read *)

\* record sets in the remote service at the start
MaxPurgeRS == 4

\* the record sets of ReadCatalog; one in the zone t. with the name and the
\* type of the record set of the sub-zone e.t.; TXT record sets, one with a
\* target that ends with a dot and one with a target that holds the separator
\* of the original-records label; CNAME record sets with a target in upper
\* case and with a target without the final dot; and a record set whose name
\* has no final dot
PurgeCatalog ==
    ReadCatalog \o
    << [ZoneID |-> "z1", Name |-> <<"w", ".", "e", ".", "t", ".">>, Type |-> "A",
        Records |-> << <<"2">> >>, TTL |-> 60],
       [ZoneID |-> "z2", Name |-> <<"w", ".", "e", ".", "t", ".">>, Type |-> "TXT",
        Records |-> << <<"v">> >>, TTL |-> 60],
       [ZoneID |-> "z1", Name |-> HostSTDot, Type |-> "TXT",
        Records |-> << <<"v">>, <<"w", ".">> >>, TTL |-> 60],
       [ZoneID |-> "z1", Name |-> <<"x", ".", "t", ".">>, Type |-> "TXT",
        Records |-> << <<"v", NUL, "w">> >>, TTL |-> 60],
       [ZoneID |-> "z2", Name |-> <<"w", ".", "e", ".", "t", ".">>, Type |-> "CNAME",
        Records |-> << <<"X", ".">>, <<"y", ".">> >>, TTL |-> 60],
       [ZoneID |-> "z1", Name |-> <<"x", ".", "t", ".">>, Type |-> "CNAME",
        Records |-> << <<"x">> >>, TTL |-> 60],
       [ZoneID |-> "z1", Name |-> HostST, Type |-> "A",
        Records |-> << <<"1">> >>, TTL |-> 60] >>

PurgeRemotes ==
    {[id \in {generateDesignateID(i) : i \in I} |->
        LET i == CHOOSE j \in I : generateDesignateID(j) = id
        IN  [ID |-> id, ZoneID |-> PurgeCatalog[i].ZoneID, Name |-> PurgeCatalog[i].Name,
             Records |-> PurgeCatalog[i].Records, TTL |-> PurgeCatalog[i].TTL,
             Type |-> PurgeCatalog[i].Type]]
     : I \in {J \in SUBSET (1..Len(PurgeCatalog)) : Cardinality(J) <= MaxPurgeRS}}

InitPurge ==
    /\ ZoneMatcherIdle
    /\ recordSets \in PurgeRemotes
    /\ nextID = Len(PurgeCatalog)
    /\ dryRun \in BOOLEAN
    /\ stage = "start"
    /\ out = <<>>
    /\ changes = NoChanges
    /\ pre = recordSets
    /\ calls = <<>>
    /\ attempts = <<>>
    /\ err = NoError
    /\ readErr = NoError
    /\ faults = NoFaults
    /\ inflight = <<>>
    /\ ServerIdle

\* an ApplyChanges call whose delete list is the endpoints read, as read
DoApplyDeleteRead ==
    /\ stage = "read"
    /\ LET ch == [NoChanges EXCEPT !.Delete = out]
       IN  \E run \in ApplyChangesRuns([recordSets |-> recordSets, nextID |-> nextID,
                                        calls |-> <<>>],
                                       ch, dryRun, {}) :
              /\ changes' = ch
              /\ pre' = recordSets
              /\ recordSets' = run.st.recordSets
              /\ nextID' = run.st.nextID
              /\ calls' = run.st.calls
              /\ attempts' = run.attempts
              /\ err' = run.err
    /\ stage' = "applied"
    /\ UNCHANGED <<dryRun, out, readErr, faults>>
    /\ UNCHANGED zvars
    /\ UNCHANGED svars
    /\ UNCHANGED inflight

NextPurge == DoRecords \/ DoApplyDeleteRead

SpecPurge == InitPurge /\ [][NextPurge]_vars

\* the record sets the endpoints were read from
ReadFrom(eps, rsets) ==
    {id \in DOMAIN rsets : \E i \in 1..Len(eps) : Label(eps[i], designateRecordSetID) = id}

\* the delete batch of the endpoints read has deleted the record sets they
\* were read from and left the others, and the next Records call returns no
\* endpoint
PurgeComplete ==
    /\ stage \in {"applied", "reread"} =>
          /\ \A id \in ReadFrom(changes.Delete, pre) : id \notin DOMAIN recordSets
          /\ \A id \in DOMAIN pre \ ReadFrom(changes.Delete, pre) :
                id \in DOMAIN recordSets /\ recordSets[id] = pre[id]
          /\ DOMAIN recordSets \subseteq DOMAIN pre
    /\ stage = "reread" => out = <<>>

\* no two record sets are read as endpoints of the same hostname and type
DistinctHostnames(rsets) ==
    \A id1, id2 \in DOMAIN rsets :
        ( /\ TrimSuffixDot(rsets[id1].Name) = TrimSuffixDot(rsets[id2].Name)
          /\ rsets[id1].Type = rsets[id2].Type ) => id1 = id2

\* every target of the record set is what a delete of the endpoint read from
\* it marks: the target as read (one final dot trimmed), canonicalized for
\* CNAME, is the stored target, and no target holds the separator of the
\* original-records label
StoredAsMarked(rs) ==
    \A t \in Range(rs.Records) :
        /\ StoredForm(TrimSuffixDot(t), rs.Type) = t
        /\ NUL \notin Range(t)

\* C33 as stated: for any remote state, the delete batch made of the endpoints
\* returned by Records deletes every record set they were read from, leaves
\* the others unchanged, and a following Records call returns no endpoint.
C33_ReadThenDelete == PurgeComplete

\* C33 amended: the same when dry-run is off, no two record sets of the remote
\* state are read as endpoints of the same hostname and type, and every
\* target of a record set that is read is stored as a delete marks it.
C33_ReadThenDeleteDistinct ==
    ( /\ ~dryRun
      /\ DistinctHostnames(pre)
      /\ \A id \in ReadFrom(changes.Delete, pre) : StoredAsMarked(pre[id]) )
    => PurgeComplete

\* an A, a TXT and a CNAME record set, stored as a delete marks them, were
\* read and deleted, a record set that Records does not list is left, and the
\* next Records call returned nothing
C33_Witness ==
    /\ stage = "reread"
    /\ ~dryRun
    /\ DistinctHostnames(pre)
    /\ \A id \in ReadFrom(changes.Delete, pre) : StoredAsMarked(pre[id])
    /\ \E ep \in Range(changes.Delete) : ep.RecordType = RecordTypeA
    /\ \E ep \in Range(changes.Delete) : ep.RecordType = RecordTypeTXT
    /\ \E ep \in Range(changes.Delete) : ep.RecordType = RecordTypeCNAME
    /\ Len(calls) = 3
    /\ \A i \in 1..Len(calls) : calls[i].op = "delete"
    /\ Cardinality(DOMAIN recordSets) = 1
    /\ out = <<>>

-----------------------------------------------------------------------------
(* Further properties of the zone matcher *)

\* C34: for a hostname and a zone index, getHostZoneID returns the same zone
\* ID in whatever order the index is iterated.
C34_ZoneMatchIsAFunction ==
    zDone => getHostZoneID(zHost, zIndex) = {zResult}

(***************************************************************************)
(* The status server of main: the start signal of the webhook API, the    *)
(* goroutine that sets httpApiStarted after it, and the /healthz handler. *)
(***************************************************************************)

\* the number of /healthz requests of a run
MaxRequests == 5

\* The values a /healthz handler can read from httpApiStarted.  The flag is a
\* plain bool, written by the goroutine of lines 33-36 and read by the
\* goroutines of the handler with no synchronisation between them: once the
\* write has happened a read races with it and may observe the written value
\* or the initial one.
HealthzReads == IF httpApiStarted THEN {TRUE, FALSE} ELSE {FALSE}

\* the status the handler answers with for the value it read: status 500
\* (internal server error) is written when the flag is false, and net/http
\* answers with status 200 when the handler writes none
HealthzStatus(started) == IF ~started THEN 500 ELSE 200

\* api.StartHTTPApi signals on startedChan once the webhook API listens; the
\* channel is unbuffered, so the signal is the receive of line 34
DoStartHTTPApi ==
    /\ startedChan = "open"
    /\ startedChan' = "signalled"
    /\ UNCHANGED <<httpApiStarted, healthz, TotalApiCalls, FailedApiCallsTotal, ApiCallLatency,
                   clientCalls>>
    /\ UNCHANGED zvars
    /\ UNCHANGED pvars

\* line 35, the goroutine after the receive
DoSetStarted ==
    /\ startedChan = "signalled"
    /\ ~httpApiStarted
    /\ httpApiStarted' = TRUE
    /\ UNCHANGED <<startedChan, healthz, TotalApiCalls, FailedApiCallsTotal, ApiCallLatency,
                   clientCalls>>
    /\ UNCHANGED zvars
    /\ UNCHANGED pvars

\* one request to /healthz, handled as a whole
DoHealthz ==
    /\ Len(healthz) < MaxRequests
    /\ \E started \in HealthzReads :
          healthz' = Append(healthz, [status |-> HealthzStatus(started),
                                      signalled |-> startedChan = "signalled"])
    /\ UNCHANGED <<startedChan, httpApiStarted, TotalApiCalls, FailedApiCallsTotal,
                   ApiCallLatency, clientCalls>>
    /\ UNCHANGED zvars
    /\ UNCHANGED pvars

InitHealth == ZoneMatcherIdle /\ ProviderIdle

NextHealth == DoStartHTTPApi \/ DoSetStarted \/ DoHealthz

SpecHealth == InitHealth /\ [][NextHealth]_vars

\* C35: /healthz answers 500 to every request handled before the start signal,
\* and after it has answered with a success status once it never answers 500
\* again.
C35_HealthFollowsStart ==
    /\ \A i \in DOMAIN healthz :
          ~healthz[i].signalled => healthz[i].status = 500
    /\ \A i, j \in DOMAIN healthz :
          (i < j /\ healthz[i].status = 200)
              => healthz[j].status # 500

(***************************************************************************)
(* The counters of the Designate client: every method of designateClient  *)
(* counts its API calls in TotalApiCalls, observes its latency in         *)
(* ApiCallLatency and counts its failure in FailedApiCallsTotal.  The     *)
(* methods run in the goroutines of their callers: a call is a sequence   *)
(* of steps, and the steps of the calls in flight interleave.             *)
(***************************************************************************)

\* the pages a listing delivers to its page callback before it ends
MaxPages == 2
\* the number of calls of the client of a run
MaxClientCalls == 3

\* the lengths of the zone IDs and of the record-set IDs: one shorter than the
\* 8 bytes the log lines slice from an ID, and the length of a UUID
IDLengths == {4, 36}

\* A method is entered.  ForEachZone and ForEachRecordSet build their pager;
\* ForEachRecordSet is called with a zone ID.  CreateRecordSet,
\* UpdateRecordSet and DeleteRecordSet run TotalApiCalls.Inc();
\* UpdateRecordSet and DeleteRecordSet are called with a record-set ID.
ClientBegin(method) ==
    /\ Len(clientCalls) < MaxClientCalls
    /\ IF method \in {"ForEachZone", "ForEachRecordSet"}
       THEN /\ \E idLen \in IF method = "ForEachZone" THEN {0} ELSE IDLengths :
                  clientCalls' = Append(clientCalls, [method |-> method, pc |-> "paging",
                                                      pages |-> 0, idLen |-> idLen,
                                                      failed |-> FALSE])
            /\ UNCHANGED TotalApiCalls
       ELSE /\ \E idLen \in IF method = "CreateRecordSet" THEN {0} ELSE IDLengths :
                  clientCalls' = Append(clientCalls, [method |-> method, pc |-> "entered",
                                                      pages |-> 0, idLen |-> idLen,
                                                      failed |-> FALSE])
            /\ TotalApiCalls' = TotalApiCalls + 1
    /\ UNCHANGED <<startedChan, httpApiStarted, healthz, FailedApiCallsTotal, ApiCallLatency>>
    /\ UNCHANGED zvars
    /\ UNCHANGED pvars

\* pager.EachPage requests the next page of a listing.  A page that is
\* delivered runs the page callback, which runs TotalApiCalls.Inc() and hands
\* the items to the handler: the listing goes on ("delivered") or the callback
\* returns an error ("rejected").  When no page is left the listing ends
\* ("done").  When the request fails the listing ends with the error and the
\* callback has not run for it ("failed").
ClientPage(c) ==
    /\ clientCalls[c].pc = "paging"
    /\ \E outcome \in {"delivered", "rejected", "done", "failed"} :
          IF outcome \in {"delivered", "rejected"}
          THEN /\ clientCalls[c].pages < MaxPages
               /\ TotalApiCalls' = TotalApiCalls + 1
               /\ clientCalls' = [clientCalls EXCEPT ![c] =
                     [@ EXCEPT !.pages = @ + 1,
                               !.pc = IF outcome = "rejected" THEN "ended" ELSE "paging",
                               !.failed = (outcome = "rejected")]]
          ELSE /\ UNCHANGED TotalApiCalls
               /\ clientCalls' = [clientCalls EXCEPT ![c] =
                     [@ EXCEPT !.pc = "ended", !.failed = (outcome = "failed")]]
    /\ UNCHANGED <<startedChan, httpApiStarted, healthz, FailedApiCallsTotal, ApiCallLatency>>
    /\ UNCHANGED zvars
    /\ UNCHANGED pvars

\* The log line before the request and the request.  UpdateRecordSet and
\* DeleteRecordSet log recordSetID[:8]: with an ID shorter than 8 bytes the
\* slice panics and the call ends there, with no request sent, no latency
\* observed and no failure counted.
ClientSend(c) ==
    /\ clientCalls[c].pc = "entered"
    /\ clientCalls' = [clientCalls EXCEPT ![c].pc =
          IF clientCalls[c].method # "CreateRecordSet" /\ clientCalls[c].idLen < 8
          THEN "panicked" ELSE "requested"]
    /\ UNCHANGED <<startedChan, httpApiStarted, healthz, TotalApiCalls, FailedApiCallsTotal,
                   ApiCallLatency>>
    /\ UNCHANGED zvars
    /\ UNCHANGED pvars

\* the request returns, with an error or not; a create that succeeded returns
\* the ID of the new record set
ClientRespond(c) ==
    /\ clientCalls[c].pc = "requested"
    /\ \E failed \in BOOLEAN :
       \E idLen \in IF clientCalls[c].method = "CreateRecordSet" /\ ~failed
                    THEN IDLengths ELSE {clientCalls[c].idLen} :
          clientCalls' = [clientCalls EXCEPT ![c] =
                [@ EXCEPT !.pc = "ended", !.failed = failed, !.idLen = idLen]]
    /\ UNCHANGED <<startedChan, httpApiStarted, healthz, TotalApiCalls, FailedApiCallsTotal,
                   ApiCallLatency>>
    /\ UNCHANGED zvars
    /\ UNCHANGED pvars

\* ApiCallLatency.WithLabelValues(method).Observe(duration)
ClientObserve(c) ==
    /\ clientCalls[c].pc = "ended"
    /\ ApiCallLatency' = [ApiCallLatency EXCEPT ![clientCalls[c].method] = @ + 1]
    /\ clientCalls' = [clientCalls EXCEPT ![c].pc = "observed"]
    /\ UNCHANGED <<startedChan, httpApiStarted, healthz, TotalApiCalls, FailedApiCallsTotal>>
    /\ UNCHANGED zvars
    /\ UNCHANGED pvars

\* The end of a method: FailedApiCallsTotal.Inc() when the call ended with an
\* error.  After a success CreateRecordSet logs r.ID[:8] and ForEachRecordSet
\* logs zoneID[:8], which panics for an ID shorter than 8 bytes.
ClientReturn(c) ==
    /\ clientCalls[c].pc = "observed"
    /\ FailedApiCallsTotal' = IF clientCalls[c].failed THEN FailedApiCallsTotal + 1
                              ELSE FailedApiCallsTotal
    /\ clientCalls' = [clientCalls EXCEPT ![c].pc =
          IF /\ clientCalls[c].method \in {"CreateRecordSet", "ForEachRecordSet"}
             /\ ~clientCalls[c].failed
             /\ clientCalls[c].idLen < 8
          THEN "panicked" ELSE "returned"]
    /\ UNCHANGED <<startedChan, httpApiStarted, healthz, TotalApiCalls, ApiCallLatency>>
    /\ UNCHANGED zvars
    /\ UNCHANGED pvars

\* designateClient.ForEachZone, step by step
DoClientForEachZone ==
    \/ ClientBegin("ForEachZone")
    \/ \E c \in DOMAIN clientCalls :
          /\ clientCalls[c].method = "ForEachZone"
          /\ (ClientPage(c) \/ ClientObserve(c) \/ ClientReturn(c))

\* designateClient.ForEachRecordSet, step by step
DoClientForEachRecordSet ==
    \/ ClientBegin("ForEachRecordSet")
    \/ \E c \in DOMAIN clientCalls :
          /\ clientCalls[c].method = "ForEachRecordSet"
          /\ (ClientPage(c) \/ ClientObserve(c) \/ ClientReturn(c))

\* designateClient.CreateRecordSet, step by step
DoClientCreateRecordSet ==
    \/ ClientBegin("CreateRecordSet")
    \/ \E c \in DOMAIN clientCalls :
          /\ clientCalls[c].method = "CreateRecordSet"
          /\ (ClientSend(c) \/ ClientRespond(c) \/ ClientObserve(c) \/ ClientReturn(c))

\* designateClient.UpdateRecordSet, step by step
DoClientUpdateRecordSet ==
    \/ ClientBegin("UpdateRecordSet")
    \/ \E c \in DOMAIN clientCalls :
          /\ clientCalls[c].method = "UpdateRecordSet"
          /\ (ClientSend(c) \/ ClientRespond(c) \/ ClientObserve(c) \/ ClientReturn(c))

\* designateClient.DeleteRecordSet, step by step
DoClientDeleteRecordSet ==
    \/ ClientBegin("DeleteRecordSet")
    \/ \E c \in DOMAIN clientCalls :
          /\ clientCalls[c].method = "DeleteRecordSet"
          /\ (ClientSend(c) \/ ClientRespond(c) \/ ClientObserve(c) \/ ClientReturn(c))

InitClient == ZoneMatcherIdle /\ ProviderIdle

NextClient ==
    \/ DoClientForEachZone
    \/ DoClientForEachRecordSet
    \/ DoClientCreateRecordSet
    \/ DoClientUpdateRecordSet
    \/ DoClientDeleteRecordSet

SpecClient == InitClient /\ [][NextClient]_vars

\* C36: in every state of the Designate client the counter of failed API calls
\* is at most the counter of API calls.
C36_FailedAtMostTotal == FailedApiCallsTotal <= TotalApiCalls

=============================================================================
